---- MODULE Spec2Model ----
(***************************************************************************)
(* Event-detection and gate-coordination core of the parking system:       *)
(* CameraHandler (virtual-line crossing detection with cooldown),          *)
(* ParkingSystem (entry / exit crossing handlers, deferred gate close,     *)
(* inbound message handling), DataManager (JSON record store) and the      *)
(* commands handed to SerialCommunicator.                                  *)
(*                                                                         *)
(* Time is the wall clock in whole seconds (time.time(), datetime.now()).  *)
(* Sleeps shorter than a second (0.033 s, 0.1 s, 0.5 s) let the clock      *)
(* advance by any amount, including none.                                  *)
(***************************************************************************)
EXTENDS Integers, Sequences, FiniteSets, TLC

\* ------------------------------------------------------------------ bounds
MaxTicks == 8          \* seconds of wall clock explored after start
MaxCrossings == 2      \* crossings declared before the scene goes quiet
MaxSlots == 2          \* total_slots ranges over 1..MaxSlots
MaxFaults == 1         \* store writes that may fail
MaxHours == 2          \* parking durations explored reach MaxHours hours (and a second)
ActualHeight == 4      \* rows of the (scaled-down) camera frame

\* ------------------------------------------------------- program constants
crossing_cooldown == 3     \* camera_handler.py:79
motion_threshold == 500    \* camera_handler.py:57
BuzzerSeconds == 3         \* main.py:186
GateTimeout == 5           \* main.py:238, main.py:327
hourly_rate == 10          \* main.py:39
JoinTimeout == 2           \* camera_handler.py:151
SecondsPerHour == 3600     \* fee_calculator.py:47

Zone == {"entry", "exit"}
Plates == {"ABC123", "XYZ999"}
NoPlate == "none"
StartTime == crossing_cooldown   \* time.time() at start is far beyond the cooldown
EndTime == StartTime + MaxTicks

VARIABLES
    now,                 \* wall clock (seconds)
    \* --- CameraHandler
    processing,          \* self.processing
    virtual_line_y,      \* entry_virtual_line_y / exit_virtual_line_y
    last_crossing_time,  \* last_entry_crossing_time / last_exit_crossing_time
    dpc,                 \* position of the detection thread (_process_frames)
    dzone,               \* zone argument of the running _check_virtual_line_crossing
    current_time,        \* local current_time of _check_virtual_line_crossing
    contours,            \* local contours of _check_virtual_line_crossing
    crossings,           \* number of crossings declared so far
    \* --- ParkingSystem
    total_slots,         \* self.total_slots
    gate_processing,     \* entry_gate_processing / exit_gate_processing
    slot_occupied,       \* self.slot_occupied
    processing_lock,     \* self.processing_lock (TRUE = held)
    h,                   \* per calling thread: the running crossing handler's frame
    timers,              \* threading.Timer objects started so far
    \* --- DataManager
    vehicles_file,       \* data/vehicles.json
    history_file,        \* data/history.json
    faults,              \* store-write failures still to come
    \* --- SerialCommunicator
    sent,                \* commands written to the serial connection, in order
    is_connected,        \* self.is_connected (the serial connection is open)
    \* --- main thread
    main,                \* position of the main thread (start, _main_loop, stop)
    camera_open,         \* the capture device is open (not yet released)
    \* --- construction (ConfigManager, CameraHandler.__init__)
    config_file,         \* content of config.json
    config,              \* ConfigManager.config (what load_config returned)
    camera_handler       \* the CameraHandler under construction: position and fields

camVars == <<processing, virtual_line_y, last_crossing_time, dpc, dzone,
             current_time, contours, crossings>>
sysVars == <<total_slots, gate_processing, slot_occupied, processing_lock, h, timers>>
dataVars == <<vehicles_file, history_file, faults>>
serVars == <<sent, is_connected>>
mainVars == <<main, camera_open>>
cfgVars == <<config_file, config, camera_handler>>
vars == <<now, camVars, sysVars, dataVars, serVars, mainVars, cfgVars>>

\* ---------------------------------------------------------------- geometry
\* Both default zones start at the frame's top edge (y1 = 0).
ZoneY1(z) == 0

\* int(actual_height * position) with the default position 0.5
VirtualLineRow(height) == height \div 2

\* camera_handler.py:66-68  the value of a trigger row that has not been
\* resolved (None); a resolved row is never negative
None == -1

\* camera_handler.py:95-101  ret, test_frame = self.camera.read(); only `if ret:`
\* resolves the two rows, and initialize_camera returns True either way
initialize_camera(ret, actual_height) ==
    IF ret THEN [z \in {"entry", "exit"} |-> VirtualLineRow(actual_height)]
           ELSE [z \in {"entry", "exit"} |-> None]

\* Contours the contour finder may report in a zone mask: contourArea and the
\* boundingRect rows (y, h).  The extents are: above the line, bottom edge on
\* the line, across the line, top edge on the line, below the line.
Areas == {motion_threshold - 1, motion_threshold}
Extents == {<<0, 1>>, <<0, 2>>, <<1, 2>>, <<2, 1>>, <<3, 1>>}
Contours == { [area |-> a, y |-> e[1], h |-> e[2]] : a \in Areas, e \in Extents }

\* Masks with no, one or two blobs; in a two-blob mask each blob lies above,
\* across or below the line.
PairExtents == {<<0, 1>>, <<1, 2>>, <<3, 1>>}
PairContours == { c \in Contours : <<c.y, c.h>> \in PairExtents }
ContourLists ==
    {<<>>} \cup { <<c>> : c \in Contours }
           \cup { <<c, d>> : c \in PairContours, d \in PairContours }

\* ------------------------------------------------- CameraHandler (detector)
\* (mutant) the cooldown test one second short
InCooldownShort(cur, last) == cur - last < crossing_cooldown - 1

\* camera_handler.py:213  current_time - last_crossing_time < self.crossing_cooldown
InCooldown(cur, last) == cur - last < crossing_cooldown

\* (mutant) the area filter left out
AreaOkAny(c) == TRUE

\* camera_handler.py:223-225  contours below the motion threshold are skipped
AreaOk(c) == ~(c.area < motion_threshold)

\* (mutant) only the top edge is compared with the line
StraddlesTopOnly(c, line) == c.y <= line

\* camera_handler.py:228-234  contour_top <= zone_virtual_line_y <= contour_bottom
Straddles(c, line) ==
    LET contour_top == c.y
        contour_bottom == c.y + c.h
    IN  contour_top <= line /\ line <= contour_bottom

\* camera_handler.py:222-250  index of the contour at which the for loop declares
\* the crossing and breaks; 0 when the loop runs to its end.
FirstCrossing(cs, line) ==
    LET hits == { i \in 1..Len(cs) : AreaOk(cs[i]) /\ Straddles(cs[i], line) }
    IN  IF hits = {} THEN 0 ELSE CHOOSE i \in hits : \A j \in hits : i <= j

\* ------------------------------------------------------- DataManager (store)
\* A store file is either readable JSON holding a list of records, or the
\* unreadable remains of a write that broke off.
EmptyFile == [readable |-> TRUE, data |-> <<>>]

\* datetime.isoformat() / datetime.fromisoformat()
IsoFormat(t) == <<"iso", t>>
FromIsoFormat(s) == s[2]

\* data_manager.py:47-57 followed by data.get(key, [])
ReadJson(file) == IF file.readable THEN file.data ELSE <<>>

\* data_manager.py:59-65  open(filepath, 'w') truncates, json.dump fills; any
\* exception is logged and swallowed.
WriteJson(file, data, outcome) ==
    CASE outcome = "ok"        -> [readable |-> TRUE, data |-> data]
      [] outcome = "unchanged" -> file
      [] outcome = "partial"   -> [readable |-> FALSE, data |-> <<>>]

WriteOutcomes == IF faults > 0 THEN {"ok", "unchanged", "partial"} ELSE {"ok"}

\* (mutant) the plate comparison never matches
SamePlateNever(vehicle, plate) == FALSE

\* data_manager.py:85, 122, 151  vehicle.get("number_plate") == number_plate
SamePlate(vehicle, plate) == vehicle.number_plate = plate

\* data_manager.py:84-87  the loop over the vehicles finds the plate
HasPlate(vehicles, plate) == \E i \in 1..Len(vehicles) : SamePlate(vehicles[i], plate)

\* data_manager.py:67-105
AddVehicleEntry(file, plate, entry_time, slot, outcome) ==
    LET vehicles == ReadJson(file)
        vehicle_entry == [number_plate |-> plate, entry_time |-> IsoFormat(entry_time),
                          slot |-> slot]
    IN  IF HasPlate(vehicles, plate)
        THEN [result |-> FALSE, file |-> file, wrote |-> FALSE]
        ELSE [result |-> TRUE, wrote |-> TRUE,
              file |-> WriteJson(file, Append(vehicles, vehicle_entry), outcome)]

\* (mutant) the lookup hands back the first record, whatever its plate
GetVehicleEntryAny(file, plate) ==
    LET vehicles == ReadJson(file)
    IN  IF vehicles = <<>> THEN <<>>
        ELSE <<[vehicles[1] EXCEPT !.entry_time = FromIsoFormat(@)]>>

\* data_manager.py:107-133  the record as a list of zero or one element
GetVehicleEntry(file, plate) ==
    LET vehicles == ReadJson(file)
        found == { i \in 1..Len(vehicles) : SamePlate(vehicles[i], plate) }
    IN  IF found = {} THEN <<>>
        ELSE LET i == CHOOSE k \in found : \A j \in found : k <= j
             IN  <<[vehicles[i] EXCEPT !.entry_time = FromIsoFormat(@)]>>

\* data_manager.py:135-164
RemoveVehicleEntry(file, plate, outcome) ==
    LET vehicles == ReadJson(file)
        kept == SelectSeq(vehicles, LAMBDA v : ~SamePlate(v, plate))
    IN  IF Len(kept) < Len(vehicles)
        THEN [result |-> TRUE, wrote |-> TRUE, file |-> WriteJson(file, kept, outcome)]
        ELSE [result |-> FALSE, wrote |-> FALSE, file |-> file]

\* data_manager.py:166-203
AddHistoryRecord(file, plate, entry_time, exit_time, fee, slot, outcome) ==
    LET history == ReadJson(file)
        history_entry == [number_plate |-> plate, entry_time |-> IsoFormat(entry_time),
                          exit_time |-> IsoFormat(exit_time), fee |-> fee, slot |-> slot]
    IN  [result |-> TRUE, wrote |-> TRUE,
         file |-> WriteJson(file, Append(history, history_entry), outcome)]

\* (mutant) every slot reported free, whatever the store holds
GetAvailableSlotsAll(file, total) ==
    LET available[i \in 0..total] ==
            IF i = 0 THEN <<>> ELSE Append(available[i - 1], i)
    IN  available[total]

\* (mutant) the free slots in descending order
GetAvailableSlotsDescending(file, total) ==
    LET vehicles == ReadJson(file)
        occupied_slots == { vehicles[i].slot : i \in 1..Len(vehicles) }
        available[i \in 0..total] ==
            IF i = 0 THEN <<>>
            ELSE IF i \in occupied_slots THEN available[i - 1]
                 ELSE <<i>> \o available[i - 1]
    IN  available[total]

\* (mutant) the slots numbered from zero
GetAvailableSlotsZeroBased(file, total) ==
    LET vehicles == ReadJson(file)
        occupied_slots == { vehicles[i].slot : i \in 1..Len(vehicles) }
        available[i \in 0..total] ==
            IF i = 0 THEN <<>>
            ELSE IF (i - 1) \in occupied_slots THEN available[i - 1]
                 ELSE Append(available[i - 1], i - 1)
    IN  available[total]

\* data_manager.py:264-288  the free slots in ascending order
GetAvailableSlots(file, total) ==
    LET vehicles == ReadJson(file)
        occupied_slots == { vehicles[i].slot : i \in 1..Len(vehicles) }
        available[i \in 0..total] ==
            IF i = 0 THEN <<>>
            ELSE IF i \in occupied_slots THEN available[i - 1]
                 ELSE Append(available[i - 1], i)
    IN  available[total]

\* (mutant) a store that cannot be read counts as full
IsParkingFullWhenUnreadable(file, total) ==
    ~file.readable \/ Len(GetAvailableSlots(file, total)) = 0

\* data_manager.py:290-301
IsParkingFull(file, total) == Len(GetAvailableSlots(file, total)) = 0

\* ------------------------------------------------------------ FeeCalculator
\* (mutant) every started hour counted by dropping the fraction and adding one
RoundUpHoursPlusOne(seconds) == seconds \div SecondsPerHour + 1

\* fee_calculator.py:47, 57-68  math.ceil(duration.total_seconds() / 3600.0):
\* the least whole number of hours that is not below the duration
RoundUpHours(seconds) == (seconds + (SecondsPerHour - 1)) \div SecondsPerHour

\* (mutant) the test for an exit before the entry left out
CalculateFeeUnguarded(entry_time, exit_time) ==
    RoundUpHours(exit_time - entry_time) * hourly_rate

\* (mutant) an exit at the very time of the entry logged as an error too
FeeLogsErrorNotAfter(entry_time, exit_time) == exit_time <= entry_time

\* fee_calculator.py:39-41  logger.error("Exit time is before entry time")
FeeLogsError(entry_time, exit_time) == exit_time < entry_time

\* fee_calculator.py:24-55
CalculateFee(entry_time, exit_time) ==
    IF exit_time < entry_time THEN 0
    ELSE RoundUpHours(exit_time - entry_time) * hourly_rate

\* ------------------------------------------------------ SerialCommunicator
\* serial_comm.py:33-68  connect(): the port can be opened (again) or not
ConnectOutcomes == BOOLEAN

\* serial_comm.py:107-134, 188-215  on a closed connection send_command first
\* calls connect() and gives up if that fails; then it writes the command.
\* (Write errors on an open connection are left out: the channel is healthy
\* while it is open.)
send_command(command) ==
    IF is_connected
    THEN sent' = Append(sent, command) /\ UNCHANGED is_connected
    ELSE \E connected \in ConnectOutcomes :
           /\ is_connected' = connected
           /\ sent' = IF connected THEN Append(sent, command) ELSE sent

OpenCommand(z) == IF z = "entry" THEN "OPEN_ENTRY_GATE" ELSE "OPEN_EXIT_GATE"
CloseCommand(z) == IF z = "entry" THEN "CLOSE_ENTRY_GATE" ELSE "CLOSE_EXIT_GATE"

\* ------------------------------------------- ConfigManager, construction
\* JSON values: a type and the integers they hold.  A zone object holds its
\* coordinates x1, y1, x2, y2 (a shorter list: a coordinate key is missing); a
\* number holds one integer (line positions in hundredths); Absent stands for a
\* key the object does not hold.
Absent == [type |-> "absent", v |-> <<>>]
JsonString == [type |-> "string", v |-> <<>>]
JsonNumber(n) == [type |-> "number", v |-> <<n>>]
JsonZone(x1, y1, x2, y2) == [type |-> "object", v |-> <<x1, y1, x2, y2>>]

ZoneKeys == {"entry_zone", "exit_zone"}
GetKeys == {"entry_virtual_line_position", "exit_virtual_line_position",
            "motion_threshold", "frame_width", "frame_height"}
ConfigKeys == ZoneKeys \cup GetKeys

\* config_manager.py:17-34  DEFAULT_CONFIG
DEFAULT_CONFIG ==
    [entry_zone |-> JsonZone(0, 0, 640, 480),
     exit_zone |-> JsonZone(640, 0, 1280, 480),
     entry_virtual_line_position |-> JsonNumber(50),
     exit_virtual_line_position |-> JsonNumber(50),
     frame_width |-> JsonNumber(1280),
     frame_height |-> JsonNumber(720),
     motion_threshold |-> JsonNumber(motion_threshold)]

\* camera_handler.py:45-49, 52-58  the defaults written in the constructor
HandlerDefaults ==
    [entry_zone |-> JsonZone(0, 0, 640, 480),
     exit_zone |-> JsonZone(640, 0, 1280, 480),
     entry_virtual_line_position |-> JsonNumber(50),
     exit_virtual_line_position |-> JsonNumber(50),
     frame_width |-> JsonNumber(1280),
     frame_height |-> JsonNumber(720),
     motion_threshold |-> JsonNumber(motion_threshold)]

\* Values a configuration file may hold under each key: none, a valid one that
\* differs from the default, and an invalid one (a zone without y2, a line
\* position above 1.0, a string where a number belongs).
FileValues(k) ==
    {Absent} \cup
    (CASE k = "entry_zone" -> {JsonZone(0, 0, 320, 240), [type |-> "object", v |-> <<0, 0, 320>>]}
       [] k = "exit_zone" -> {JsonZone(320, 0, 640, 240), JsonString}
       [] k \in {"entry_virtual_line_position", "exit_virtual_line_position"} ->
              {JsonNumber(25), JsonNumber(150)}
       [] OTHER -> {JsonNumber(640), JsonString})

\* A JSON object: one value (or Absent) for each key.
JsonObjects == { o \in [ConfigKeys -> UNION { FileValues(k) : k \in ConfigKeys }] :
                   \A k \in ConfigKeys : o[k] \in FileValues(k) }
AllAbsent == [k \in ConfigKeys |-> Absent]

\* What config.json may be: missing, unreadable (open() raises), not JSON, a
\* JSON document that is a list, or a JSON object.
NoConfigFile == [kind |-> "missing", obj |-> AllAbsent]
ConfigFiles ==
    { [kind |-> kd, obj |-> AllAbsent] : kd \in {"missing", "unreadable", "not_json", "list"} }
        \cup { [kind |-> "object", obj |-> o] : o \in JsonObjects }

\* config_manager.py:49-73  load_config: json.load's result as it is; the
\* defaults when the file is missing, is not JSON or cannot be read
load_config(file) ==
    IF file.kind \in {"object", "list"}
    THEN file
    ELSE [kind |-> "object", obj |-> DEFAULT_CONFIG]

\* config_manager.py:101-141  _validate_config's tests on a single value: a
\* zone has the four coordinates, a line position is a number in 0.0 .. 1.0;
\* the other keys hold numbers.
ValidValue(k, val) ==
    CASE k \in ZoneKeys -> val.type = "object" /\ Len(val.v) = 4
      [] k \in {"entry_virtual_line_position", "exit_virtual_line_position"} ->
             val.type = "number" /\ val.v[1] >= 0 /\ val.v[1] <= 100
      [] OTHER -> val.type = "number"

\* config_manager.py:47  self.config = None
NoConfig == [kind |-> "none", obj |-> AllAbsent]

\* The handler before its constructor has run.
Unconstructed(use_config) ==
    [pc |-> "load", use_config |-> use_config, fields |-> AllAbsent]

\* The handler built without a configuration file in place.
ConstructedWithDefaults ==
    [pc |-> "done", use_config |-> TRUE, fields |-> HandlerDefaults]

\* camera_handler.py:40-42  use_config: config = self.config_manager.load_config()
InitLoad ==
    /\ camera_handler.pc = "load"
    /\ camera_handler.use_config
    /\ config' = load_config(config_file)
    /\ camera_handler' = [camera_handler EXCEPT !.pc = "zones"]
    /\ UNCHANGED <<now, camVars, sysVars, dataVars, serVars, mainVars, config_file>>

\* camera_handler.py:43-44  config["entry_zone"], config["exit_zone"]: a
\* TypeError on a list, a KeyError on a missing key, uncaught up to main()
InitZones ==
    /\ camera_handler.pc = "zones"
    /\ camera_handler' =
         IF config.kind = "list" \/ \E k \in ZoneKeys : config.obj[k] = Absent
         THEN [camera_handler EXCEPT !.pc = "raised"]
         ELSE [camera_handler EXCEPT
                 !.pc = "gets",
                 !.fields = [k \in ConfigKeys |->
                               IF k \in ZoneKeys THEN config.obj[k] ELSE @[k]]]
    /\ UNCHANGED <<now, camVars, sysVars, dataVars, serVars, mainVars, config_file, config>>

\* camera_handler.py:45-49  config.get(key, default) for the other keys
InitGets ==
    /\ camera_handler.pc = "gets"
    /\ camera_handler' =
         [camera_handler EXCEPT
            !.pc = "done",
            !.fields = [k \in ConfigKeys |->
                          IF k \in ZoneKeys THEN @[k]
                          ELSE IF config.obj[k] = Absent THEN HandlerDefaults[k]
                          ELSE config.obj[k]]]
    /\ UNCHANGED <<now, camVars, sysVars, dataVars, serVars, mainVars, config_file, config>>

\* camera_handler.py:50-58  use_config false: the defaults, no file read
InitDefaults ==
    /\ camera_handler.pc = "load"
    /\ ~camera_handler.use_config
    /\ camera_handler' = [camera_handler EXCEPT !.pc = "done", !.fields = HandlerDefaults]
    /\ UNCHANGED <<now, camVars, sysVars, dataVars, serVars, mainVars, config_file, config>>

\* ------------------------------------------------------------ main thread
\* The frame of the main thread: start() has entered _main_loop and stands at
\* the top of `while self.running`.
MainAtLoop == [pc |-> "read", messages |-> <<>>, i |-> 0, wake |-> 0, stopped_at |-> 0]

\* ------------------------------------------- ParkingSystem crossing handlers
\* The frame of one execution of _handle_entry_virtual_line /
\* _handle_exit_virtual_line in thread t.
\* (attempts counts the calls of extract_number_plate so far, image names what
\* the last one was handed.)
IdleFrame == [pc |-> "idle", zone |-> "entry", number_plate |-> NoPlate, slot |-> 0,
              wake |-> 0, vehicle_entry |-> <<>>, exit_time |-> 0, fee |-> 0,
              fee_error |-> FALSE, attempts |-> 0, image |-> "none"]

Threads == DOMAIN h
Goto(t, pc) == [h EXCEPT ![t].pc = pc]
At(t, z, pc) == h[t].pc = pc /\ h[t].zone = z

\* (mutant) the lock is not taken
CanAcquireAlways == TRUE

\* main.py:173, 188, 246  `with self.processing_lock:` blocks while the lock is held
CanAcquire == processing_lock = FALSE

\* (mutant) the flag is taken to be set whatever its value
AlreadyProcessingAlways(z) == TRUE

\* (mutant) the flag is not looked at
AlreadyProcessingNever(z) == FALSE

\* main.py:174, 261  the flag test under the lock
AlreadyProcessing(z) == gate_processing[z]

\* main.py:173  with self.processing_lock:
HAcquire(t) ==
    /\ h[t].pc = "acquire"
    /\ CanAcquire
    /\ processing_lock' = TRUE
    /\ h' = Goto(t, "test")
    /\ UNCHANGED <<now, camVars, mainVars, cfgVars, total_slots, gate_processing, slot_occupied, timers,
                   dataVars, serVars>>

\* main.py:174-176 / 261-263  if self.entry_gate_processing: warn, return
HTest(t) ==
    /\ h[t].pc = "test"
    /\ IF AlreadyProcessing(h[t].zone)
       THEN /\ processing_lock' = FALSE
            /\ h' = Goto(t, "returned")
       ELSE /\ h' = Goto(t, "set")
            /\ UNCHANGED processing_lock
    /\ UNCHANGED <<now, camVars, mainVars, cfgVars, total_slots, gate_processing, slot_occupied, timers,
                   dataVars, serVars>>

\* (mutant) the flag is set and the lock is kept
HSetKeepsLock(t) ==
    /\ h[t].pc = "set"
    /\ gate_processing' = [gate_processing EXCEPT ![h[t].zone] = TRUE]
    /\ h' = Goto(t, IF h[t].zone = "entry" THEN "full_check" ELSE "extract")
    /\ UNCHANGED <<now, camVars, mainVars, cfgVars, total_slots, slot_occupied, processing_lock,
                   timers, dataVars, serVars>>

\* main.py:178-179 / 265-266  self.entry_gate_processing = True, leave the with block
HSet(t) ==
    /\ h[t].pc = "set"
    /\ gate_processing' = [gate_processing EXCEPT ![h[t].zone] = TRUE]
    /\ processing_lock' = FALSE
    /\ h' = Goto(t, IF h[t].zone = "entry" THEN "full_check" ELSE "extract")
    /\ UNCHANGED <<now, camVars, mainVars, cfgVars, total_slots, slot_occupied, timers, dataVars, serVars>>

\* (mutant) the hardware occupancy flag is not consulted
ParkingFullLedgerOnly == IsParkingFull(vehicles_file, total_slots)

\* main.py:182  is_parking_full(total_slots) or self.slot_occupied
ParkingFull == IsParkingFull(vehicles_file, total_slots) \/ slot_occupied

\* main.py:181-183
HFullCheck(t) ==
    /\ At(t, "entry", "full_check")
    /\ h' = Goto(t, IF ParkingFull THEN "buzzer_on" ELSE "extract")
    /\ UNCHANGED <<now, camVars, mainVars, cfgVars, total_slots, gate_processing, slot_occupied,
                   processing_lock, timers, dataVars, serVars>>

\* main.py:184-186  buzzer_on, then time.sleep(3) starts
HBuzzerOn(t) ==
    /\ At(t, "entry", "buzzer_on")
    /\ send_command("BUZZER_ON")
    /\ h' = [h EXCEPT ![t].pc = "buzzer_sleep", ![t].wake = now + BuzzerSeconds]
    /\ UNCHANGED <<now, camVars, mainVars, cfgVars, total_slots, gate_processing, slot_occupied,
                   processing_lock, timers, dataVars>>

\* main.py:186-187  the sleep ends, buzzer_off
HBuzzerOff(t) ==
    /\ At(t, "entry", "buzzer_sleep")
    /\ now >= h[t].wake
    /\ send_command("BUZZER_OFF")
    /\ h' = [h EXCEPT ![t].pc = "clear_acquire", ![t].wake = 0]
    /\ UNCHANGED <<now, camVars, mainVars, cfgVars, total_slots, gate_processing, slot_occupied,
                   processing_lock, timers, dataVars>>

\* main.py:188, 204, 214, 222, 241, 280, 291  with self.processing_lock:
HClearAcquire(t) ==
    /\ h[t].pc = "clear_acquire"
    /\ CanAcquire
    /\ processing_lock' = TRUE
    /\ h' = Goto(t, "clear")
    /\ UNCHANGED <<now, camVars, mainVars, cfgVars, total_slots, gate_processing, slot_occupied, timers,
                   dataVars, serVars>>

\* (mutant) the abort path returns with the flag left set
HClearKeepsFlag(t) ==
    /\ h[t].pc = "clear"
    /\ processing_lock' = FALSE
    /\ h' = Goto(t, "returned")
    /\ UNCHANGED <<now, camVars, mainVars, cfgVars, total_slots, gate_processing, slot_occupied, timers,
                   dataVars, serVars>>

\* main.py:189-190 (and 205-206, 215-216, 223-224, 242, 281-282, 292-293)
\* self.entry_gate_processing = False, leave the with block, return
HClear(t) ==
    /\ h[t].pc = "clear"
    /\ gate_processing' = [gate_processing EXCEPT ![h[t].zone] = FALSE]
    /\ processing_lock' = FALSE
    /\ h' = Goto(t, "returned")
    /\ UNCHANGED <<now, camVars, mainVars, cfgVars, total_slots, slot_occupied, timers, dataVars, serVars>>

\* camera_handler.py:329-364  the OCR result: a validated plate or nothing
PlateResults == Plates \cup {NoPlate}

\* main.py:194-196 / 270-272  extract_number_plate(zone_image): the zone image
\* the detector handed to the callback
HExtract(t) ==
    /\ h[t].pc = "extract"
    /\ \E p \in PlateResults :
         h' = [h EXCEPT ![t].number_plate = p,
                        ![t].attempts = @ + 1,
                        ![t].image = "zone_image",
                        ![t].pc = IF p = NoPlate THEN "retry" ELSE "lookup"]
    /\ UNCHANGED <<now, camVars, mainVars, cfgVars, total_slots, gate_processing, slot_occupied,
                   processing_lock, timers, dataVars, serVars>>

\* (mutant) the retry is repeated until a plate is read
HRetryAgain(t) ==
    /\ h[t].pc = "retry"
    /\ \E p \in PlateResults :
         h' = [h EXCEPT ![t].number_plate = p,
                        ![t].attempts = @ + 1,
                        ![t].image = "frame_crop",
                        ![t].pc = IF p = NoPlate THEN "retry" ELSE "lookup"]
    /\ UNCHANGED <<now, camVars, mainVars, cfgVars, total_slots, gate_processing, slot_occupied,
                   processing_lock, timers, dataVars, serVars>>

\* main.py:199-206 / 275-282  sleep 0.5 s, extract_number_plate_from_zone(frame, zone):
\* extract_zone (camera_handler.py:272-294) crops the zone out of the full frame
\* anew, extract_number_plate reads that crop
HRetry(t) ==
    /\ h[t].pc = "retry"
    /\ \E p \in PlateResults :
         h' = [h EXCEPT ![t].number_plate = p,
                        ![t].attempts = @ + 1,
                        ![t].image = "frame_crop",
                        ![t].pc = IF p = NoPlate THEN "clear_acquire" ELSE "lookup"]
    /\ UNCHANGED <<now, camVars, mainVars, cfgVars, total_slots, gate_processing, slot_occupied,
                   processing_lock, timers, dataVars, serVars>>

\* main.py:210-216  entry: a plate that already has an active record is denied
HEntryLookup(t) ==
    /\ At(t, "entry", "lookup")
    /\ LET existing_vehicle == GetVehicleEntry(vehicles_file, h[t].number_plate)
       IN  h' = Goto(t, IF existing_vehicle # <<>> THEN "clear_acquire" ELSE "slots")
    /\ UNCHANGED <<now, camVars, mainVars, cfgVars, total_slots, gate_processing, slot_occupied,
                   processing_lock, timers, dataVars, serVars>>

\* main.py:218-226  slot = available_slots[0]
HSlots(t) ==
    /\ At(t, "entry", "slots")
    /\ LET available_slots == GetAvailableSlots(vehicles_file, total_slots)
       IN  IF available_slots = <<>>
           THEN h' = Goto(t, "clear_acquire")
           ELSE h' = [h EXCEPT ![t].pc = "add", ![t].slot = available_slots[1]]
    /\ UNCHANGED <<now, camVars, mainVars, cfgVars, total_slots, gate_processing, slot_occupied,
                   processing_lock, timers, dataVars, serVars>>

\* main.py:228-231, 239-242  entry_time = datetime.now(); add_vehicle_entry(...)
HAdd(t) ==
    /\ At(t, "entry", "add")
    /\ \E outcome \in WriteOutcomes :
         LET r == AddVehicleEntry(vehicles_file, h[t].number_plate, now, h[t].slot, outcome)
         IN  /\ vehicles_file' = r.file
             /\ faults' = IF r.wrote /\ outcome # "ok" THEN faults - 1 ELSE faults
             /\ r.wrote \/ outcome = "ok"
             /\ h' = Goto(t, IF r.result THEN "open" ELSE "clear_acquire")
    /\ UNCHANGED <<now, camVars, mainVars, cfgVars, total_slots, gate_processing, slot_occupied,
                   processing_lock, timers, history_file, serVars>>

\* main.py:286-293  exit: a plate without an active record is turned away
HExitLookup(t) ==
    /\ At(t, "exit", "lookup")
    /\ LET vehicle_entry == GetVehicleEntry(vehicles_file, h[t].number_plate)
       IN  IF vehicle_entry = <<>>
           THEN h' = Goto(t, "clear_acquire")
           ELSE h' = [h EXCEPT ![t].pc = "fee", ![t].vehicle_entry = vehicle_entry]
    /\ UNCHANGED <<now, camVars, mainVars, cfgVars, total_slots, gate_processing, slot_occupied,
                   processing_lock, timers, dataVars, serVars>>

\* main.py:295-312  exit_time = datetime.now(); fee = calculate_fee(entry_time, exit_time)
HFee(t) ==
    /\ At(t, "exit", "fee")
    /\ LET entry_time == h[t].vehicle_entry[1].entry_time
       IN  h' = [h EXCEPT ![t].pc = "history", ![t].exit_time = now,
                          ![t].fee = CalculateFee(entry_time, now),
                          ![t].fee_error = FeeLogsError(entry_time, now)]
    /\ UNCHANGED <<now, camVars, mainVars, cfgVars, total_slots, gate_processing, slot_occupied,
                   processing_lock, timers, dataVars, serVars>>

\* (mutant) the gate is opened right after the history record, the active
\* record not yet removed
HHistoryThenOpen(t) ==
    /\ At(t, "exit", "history")
    /\ \E outcome \in WriteOutcomes :
         LET v == h[t].vehicle_entry[1]
             r == AddHistoryRecord(history_file, h[t].number_plate, v.entry_time,
                                   h[t].exit_time, h[t].fee, v.slot, outcome)
         IN  /\ history_file' = r.file
             /\ faults' = IF outcome # "ok" THEN faults - 1 ELSE faults
    /\ h' = Goto(t, "open")
    /\ UNCHANGED <<now, camVars, mainVars, cfgVars, total_slots, gate_processing, slot_occupied,
                   processing_lock, timers, vehicles_file, serVars>>

\* main.py:314-316  add_history_record(...); its result is not looked at
HHistory(t) ==
    /\ At(t, "exit", "history")
    /\ \E outcome \in WriteOutcomes :
         LET v == h[t].vehicle_entry[1]
             r == AddHistoryRecord(history_file, h[t].number_plate, v.entry_time,
                                   h[t].exit_time, h[t].fee, v.slot, outcome)
         IN  /\ history_file' = r.file
             /\ faults' = IF outcome # "ok" THEN faults - 1 ELSE faults
    /\ h' = Goto(t, "remove")
    /\ UNCHANGED <<now, camVars, mainVars, cfgVars, total_slots, gate_processing, slot_occupied,
                   processing_lock, timers, vehicles_file, serVars>>

\* main.py:318-321  remove_vehicle_entry(number_plate); its result is not looked at
HRemove(t) ==
    /\ At(t, "exit", "remove")
    /\ \E outcome \in WriteOutcomes :
         LET r == RemoveVehicleEntry(vehicles_file, h[t].number_plate, outcome)
         IN  /\ vehicles_file' = r.file
             /\ faults' = IF r.wrote /\ outcome # "ok" THEN faults - 1 ELSE faults
             /\ r.wrote \/ outcome = "ok"
    /\ h' = Goto(t, "open")
    /\ UNCHANGED <<now, camVars, mainVars, cfgVars, total_slots, gate_processing, slot_occupied,
                   processing_lock, timers, history_file, serVars>>

\* main.py:233-234 / 323-324  open_entry_gate / open_exit_gate
HOpen(t) ==
    /\ h[t].pc = "open"
    /\ send_command(OpenCommand(h[t].zone))
    /\ h' = Goto(t, "timer")
    /\ UNCHANGED <<now, camVars, mainVars, cfgVars, total_slots, gate_processing, slot_occupied,
                   processing_lock, timers, dataVars>>

\* (mutant) the handler clears its flag once the timer is started
HTimerClearsFlag(t) ==
    /\ h[t].pc = "timer"
    /\ timers' = Append(timers, [zone |-> h[t].zone, due |-> now + GateTimeout,
                                 pc |-> "waiting"])
    /\ gate_processing' = [gate_processing EXCEPT ![h[t].zone] = FALSE]
    /\ h' = Goto(t, "returned")
    /\ UNCHANGED <<now, camVars, mainVars, cfgVars, total_slots, slot_occupied,
                   processing_lock, dataVars, serVars>>

\* main.py:238 / 327  threading.Timer(5.0, self._close_..._gate_after_timeout).start()
HTimer(t) ==
    /\ h[t].pc = "timer"
    /\ timers' = Append(timers, [zone |-> h[t].zone, due |-> now + GateTimeout,
                                 pc |-> "waiting"])
    /\ h' = Goto(t, "returned")
    /\ UNCHANGED <<now, camVars, mainVars, cfgVars, total_slots, gate_processing, slot_occupied,
                   processing_lock, dataVars, serVars>>

Handler(t) ==
    \/ HAcquire(t) \/ HTest(t) \/ HSet(t) \/ HFullCheck(t) \/ HBuzzerOn(t)
    \/ HBuzzerOff(t) \/ HClearAcquire(t) \/ HClear(t) \/ HExtract(t) \/ HRetry(t)
    \/ HEntryLookup(t) \/ HSlots(t) \/ HAdd(t) \/ HExitLookup(t) \/ HFee(t)
    \/ HHistory(t) \/ HRemove(t) \/ HOpen(t) \/ HTimer(t)

\* ----------------------------------- deferred close (threading.Timer threads)
\* The timer thread ends when its function returns: the Timer object is gone.
Finished(i) == SubSeq(timers, 1, i - 1) \o SubSeq(timers, i + 1, Len(timers))

\* main.py:244-246 / 329-331  the timer fires after its interval and takes the lock
TFire(i) ==
    /\ timers[i].pc = "waiting"
    /\ now >= timers[i].due
    /\ CanAcquire
    /\ processing_lock' = TRUE
    /\ timers' = [timers EXCEPT ![i].pc = "test"]
    /\ UNCHANGED <<now, camVars, mainVars, cfgVars, total_slots, gate_processing, slot_occupied, h,
                   dataVars, serVars>>

\* main.py:247-248 / 332-333  if self.entry_gate_processing: close_entry_gate(...)
TClose(i) ==
    /\ timers[i].pc = "test"
    /\ IF AlreadyProcessing(timers[i].zone)
       THEN /\ send_command(CloseCommand(timers[i].zone))
            /\ timers' = [timers EXCEPT ![i].pc = "clear"]
            /\ UNCHANGED processing_lock
       ELSE /\ timers' = Finished(i)
            /\ processing_lock' = FALSE
            /\ UNCHANGED serVars
    /\ UNCHANGED <<now, camVars, mainVars, cfgVars, total_slots, gate_processing, slot_occupied, h, dataVars>>

\* (mutant) the close callback clears the flags of both zones
TClearBoth(i) ==
    /\ timers[i].pc = "clear"
    /\ gate_processing' = [z \in Zone |-> FALSE]
    /\ processing_lock' = FALSE
    /\ timers' = Finished(i)
    /\ UNCHANGED <<now, camVars, mainVars, cfgVars, total_slots, slot_occupied, h, dataVars, serVars>>

\* main.py:249-250 / 334-335  self.entry_gate_processing = False, leave the with block
TClear(i) ==
    /\ timers[i].pc = "clear"
    /\ gate_processing' = [gate_processing EXCEPT ![timers[i].zone] = FALSE]
    /\ processing_lock' = FALSE
    /\ timers' = Finished(i)
    /\ UNCHANGED <<now, camVars, mainVars, cfgVars, total_slots, slot_occupied, h, dataVars, serVars>>

Timer(i) == TFire(i) \/ TClose(i) \/ TClear(i)

\* --------------------------------------------- detection thread (camera loop)
Detector == "detector"

\* camera_handler.py:166-177  after the entry check comes the exit check, after
\* the exit check the 33 ms sleep and the next frame
AfterCheck(z) ==
    /\ dpc' = IF z = "entry" THEN "check" ELSE "read"
    /\ dzone' = IF z = "entry" THEN "exit" ELSE "entry"

\* camera_handler.py:156-164  while self.processing: ret, frame = self.camera.read()
ReadFrame ==
    /\ dpc = "read"
    /\ processing
    /\ \E ret \in BOOLEAN :
         IF ret THEN dpc' = "check" /\ dzone' = "entry"
                ELSE UNCHANGED <<dpc, dzone>>
    /\ UNCHANGED <<now, processing, virtual_line_y, last_crossing_time, current_time,
                   contours, crossings, mainVars, cfgVars, sysVars, dataVars, serVars>>

\* What the contour finder can return for a zone mask: after MaxCrossings
\* declared crossings nothing moves in front of the camera any more.
Scene == IF crossings < MaxCrossings THEN ContourLists ELSE {<<>>}

\* camera_handler.py:190-219  current_time = time.time(); cooldown test; findContours
CheckCooldown ==
    /\ dpc = "check"
    /\ virtual_line_y[dzone] # None
    /\ IF InCooldown(now, last_crossing_time[dzone])
       THEN /\ AfterCheck(dzone)
            /\ UNCHANGED <<current_time, contours>>
       ELSE /\ current_time' = now
            /\ \E cs \in Scene : contours' = cs
            /\ dpc' = "scan"
            /\ UNCHANGED dzone
    /\ UNCHANGED <<now, processing, virtual_line_y, last_crossing_time, crossings,
                   mainVars, cfgVars, sysVars, dataVars, serVars>>

\* (mutant) the loop does not break: every qualifying contour declares a crossing
ScanContoursNoBreak ==
    /\ dpc = "scan"
    /\ LET zone_virtual_line_y == virtual_line_y[dzone] - ZoneY1(dzone)
           hits == { i \in 1..Len(contours) :
                       AreaOk(contours[i]) /\ Straddles(contours[i], zone_virtual_line_y) }
       IN  IF hits = {}
           THEN /\ AfterCheck(dzone)
                /\ UNCHANGED <<last_crossing_time, crossings, h>>
           ELSE /\ last_crossing_time' = [last_crossing_time EXCEPT ![dzone] = current_time]
                /\ crossings' = crossings + Cardinality(hits)
                /\ h' = [h EXCEPT ![Detector] = [IdleFrame EXCEPT !.pc = "acquire",
                                                                   !.zone = dzone]]
                /\ dpc' = "callback"
                /\ UNCHANGED dzone
    /\ contours' = <<>>
    /\ current_time' = 0
    /\ UNCHANGED <<now, processing, virtual_line_y, mainVars, cfgVars, total_slots, gate_processing,
                   slot_occupied, processing_lock, timers, dataVars, serVars>>

\* (mutant) the crossing time is recorded at every scan, declared or not
ScanContoursStampsAlways ==
    /\ dpc = "scan"
    /\ LET zone_virtual_line_y == virtual_line_y[dzone] - ZoneY1(dzone)
           i == FirstCrossing(contours, zone_virtual_line_y)
       IN  IF i = 0
           THEN /\ AfterCheck(dzone)
                /\ last_crossing_time' = [last_crossing_time EXCEPT ![dzone] = current_time]
                /\ UNCHANGED <<crossings, h>>
           ELSE /\ last_crossing_time' = [last_crossing_time EXCEPT ![dzone] = current_time]
                /\ crossings' = crossings + 1
                /\ h' = [h EXCEPT ![Detector] = [IdleFrame EXCEPT !.pc = "acquire",
                                                                   !.zone = dzone]]
                /\ dpc' = "callback"
                /\ UNCHANGED dzone
    /\ contours' = <<>>
    /\ current_time' = 0
    /\ UNCHANGED <<now, processing, virtual_line_y, mainVars, cfgVars, total_slots, gate_processing,
                   slot_occupied, processing_lock, timers, dataVars, serVars>>

\* (mutant) the callback is handed to another thread: the loop goes on at once
ScanContoursAsync ==
    /\ dpc = "scan"
    /\ LET zone_virtual_line_y == virtual_line_y[dzone] - ZoneY1(dzone)
           i == FirstCrossing(contours, zone_virtual_line_y)
       IN  IF i = 0
           THEN /\ AfterCheck(dzone)
                /\ UNCHANGED <<last_crossing_time, crossings, h>>
           ELSE /\ last_crossing_time' = [last_crossing_time EXCEPT ![dzone] = current_time]
                /\ crossings' = crossings + 1
                /\ h' = [h EXCEPT ![Detector] = [IdleFrame EXCEPT !.pc = "acquire",
                                                                   !.zone = dzone]]
                /\ AfterCheck(dzone)
    /\ contours' = <<>>
    /\ current_time' = 0
    /\ UNCHANGED <<now, processing, virtual_line_y, mainVars, cfgVars, total_slots, gate_processing,
                   slot_occupied, processing_lock, timers, dataVars, serVars>>

\* camera_handler.py:221-250  the for loop over the contours; on the first contour
\* that qualifies: record the crossing time, call the callback, break
ScanContours ==
    /\ dpc = "scan"
    /\ LET zone_virtual_line_y == virtual_line_y[dzone] - ZoneY1(dzone)
           i == FirstCrossing(contours, zone_virtual_line_y)
       IN  IF i = 0
           THEN /\ AfterCheck(dzone)
                /\ UNCHANGED <<last_crossing_time, crossings, h>>
           ELSE /\ last_crossing_time' = [last_crossing_time EXCEPT ![dzone] = current_time]
                /\ crossings' = crossings + 1
                /\ h' = [h EXCEPT ![Detector] = [IdleFrame EXCEPT !.pc = "acquire",
                                                                   !.zone = dzone]]
                /\ dpc' = "callback"
                /\ UNCHANGED dzone
    /\ contours' = <<>>
    /\ current_time' = 0
    /\ UNCHANGED <<now, processing, virtual_line_y, mainVars, cfgVars, total_slots, gate_processing,
                   slot_occupied, processing_lock, timers, dataVars, serVars>>

\* camera_handler.py:244-250  the callback has returned; break
CallbackReturn ==
    /\ dpc = "callback"
    /\ h[Detector].pc = "returned"
    /\ h' = [h EXCEPT ![Detector] = IdleFrame]
    /\ AfterCheck(dzone)
    /\ UNCHANGED <<now, processing, virtual_line_y, last_crossing_time, current_time,
                   contours, crossings, mainVars, cfgVars, total_slots, gate_processing, slot_occupied,
                   processing_lock, timers, dataVars, serVars>>

\* ------------------------------------------------- main loop (inbound messages)
Messages == {"SLOT_OCCUPIED", "SLOT_FREE", "READY"}
Batches == { <<m>> : m \in Messages } \cup { <<m, n>> : m \in Messages, n \in Messages }

\* (mutant) every message but SLOT_OCCUPIED frees the slot
HandleMessageElseFree(occupied, message) == message = "SLOT_OCCUPIED"

\* main.py:147-163  _handle_message: the occupancy flag after the message
HandleMessage(occupied, message) ==
    CASE message = "SLOT_OCCUPIED" -> TRUE
      [] message = "SLOT_FREE" -> FALSE
      [] OTHER -> occupied

\* main.py:141-142  for message in messages: self._handle_message(message)
RECURSIVE HandleMessages(_, _)
HandleMessages(occupied, batch) ==
    IF batch = <<>> THEN occupied
    ELSE HandleMessages(HandleMessage(occupied, Head(batch)), Tail(batch))

\* main.py:137-145  one iteration of the main loop that finds messages waiting
MainLoop ==
    /\ main.pc = "read"
    /\ \E occupied \in { HandleMessages(slot_occupied, batch) : batch \in Batches } :
         slot_occupied' = occupied
    /\ UNCHANGED <<now, camVars, mainVars, cfgVars, total_slots, gate_processing, processing_lock, h, timers,
                   dataVars, serVars>>

\* main.py:139  messages = self.serial_comm.read_all_messages()
MLRead ==
    /\ main.pc = "read"
    /\ \E batch \in Batches \cup {<<>>} :
         main' = [main EXCEPT !.pc = "handle", !.messages = batch, !.i = 1]
    /\ UNCHANGED <<now, camVars, sysVars, dataVars, serVars, camera_open, cfgVars>>

\* main.py:141-142  the for loop takes the next message: self._handle_message(message)
MLHandle ==
    /\ main.pc = "handle"
    /\ main.i <= Len(main.messages)
    /\ slot_occupied' = HandleMessage(slot_occupied, main.messages[main.i])
    /\ main' = [main EXCEPT !.i = @ + 1]
    /\ UNCHANGED <<now, camVars, total_slots, gate_processing, processing_lock, h, timers,
                   dataVars, serVars, camera_open, cfgVars>>

\* main.py:145  the for loop is over: time.sleep(0.1), back to the top of the loop
MLSleep ==
    /\ main.pc = "handle"
    /\ main.i > Len(main.messages)
    /\ main' = MainAtLoop
    /\ UNCHANGED <<now, camVars, sysVars, dataVars, serVars, camera_open, cfgVars>>

\* ------------------------------------------------------------------- time
\* The clock advances in whole seconds while the detection thread waits for the
\* next frame (camera read, 33 ms sleep) or sleeps its 3 s with the buzzer on.
\* The statements in between, the OCR call and the 0.5 s retry delay stay below
\* the clock's resolution, and the critical sections of processing_lock are
\* over before the clock moves on.
\* The clock is only ever read to form differences, so idle time in which
\* nothing timed is under way (no cooldown running, no timer pending, no sleep)
\* is not spun out.
Waiting(t) == h[t].pc \in {"idle", "buzzer_sleep"}

TimedPending ==
    \/ \E z \in Zone : InCooldown(now, last_crossing_time[z])
    \/ timers # <<>>
    \/ \E t \in Threads : h[t].pc = "buzzer_sleep"
    \/ main.pc \in {"join", "join_release"}

Tick ==
    /\ now < EndTime
    /\ TimedPending
    /\ dpc \in {"read", "callback", "done"}
    /\ main.pc \in {"read", "join", "join_release", "stopped"}
    /\ \A t \in Threads : Waiting(t)
    /\ processing_lock = FALSE
    /\ now' = now + 1
    /\ UNCHANGED <<camVars, mainVars, cfgVars, sysVars, dataVars, serVars>>

\* ------------------------------------------------------------ specification
\* The state after ParkingSystem.start() has started the detection thread, with
\* an empty store.
Init ==
    /\ now = StartTime
    /\ processing = TRUE
    /\ virtual_line_y = [z \in Zone |-> VirtualLineRow(ActualHeight)]
    /\ last_crossing_time = [z \in Zone |-> 0]
    /\ dpc = "read"
    /\ dzone = "entry"
    /\ current_time = 0
    /\ contours = <<>>
    /\ crossings = 0
    /\ total_slots \in 1..MaxSlots
    /\ gate_processing = [z \in Zone |-> FALSE]
    /\ slot_occupied = FALSE
    /\ processing_lock = FALSE
    /\ h = [t \in {Detector} |-> IdleFrame]
    /\ timers = <<>>
    /\ vehicles_file = EmptyFile
    /\ history_file = EmptyFile
    /\ faults = MaxFaults
    /\ sent = <<>>
    /\ is_connected = TRUE
    /\ main = MainAtLoop
    /\ camera_open = TRUE
    /\ config_file = NoConfigFile
    /\ config = load_config(NoConfigFile)
    /\ camera_handler = ConstructedWithDefaults

Next ==
    \/ ReadFrame \/ CheckCooldown \/ ScanContours \/ CallbackReturn
    \/ \E t \in Threads : Handler(t)
    \/ \E i \in 1..Len(timers) : Timer(i)
    \/ MainLoop
    \/ Tick

Spec == Init /\ [][Next]_vars

\* ------------------------------------------------------------- scheduling
\* The threads of the running system are scheduled and the clock moves on:
\* - the wall clock advances again and again (the detection thread comes back
\*   to its frame wait between two checks);
\* - the detection thread keeps taking its steps; a step that waits for
\*   processing_lock gets the lock eventually, because every holder leaves its
\*   `with` block after a few statements;
\* - a timer thread whose interval has passed runs its function.
Fairness ==
    /\ SF_vars(Tick)
    /\ WF_vars(ReadFrame \/ CheckCooldown \/ ScanContours \/ CallbackReturn)
    /\ SF_vars(Handler(Detector))
    /\ SF_vars(\E i \in 1..Len(timers) : Timer(i))

SpecLive == Spec /\ Fairness

\* ----------------------------------------------------------------- shutdown
\* camera_handler.py:156  `while self.processing` is found false: the detection
\* thread ends
DetectorExit ==
    /\ dpc = "read"
    /\ ~processing
    /\ dpc' = "done"
    /\ UNCHANGED <<now, processing, virtual_line_y, last_crossing_time, dzone, current_time,
                   contours, crossings, sysVars, dataVars, serVars, mainVars, cfgVars>>

\* main.py:104-110, 114-120: the main loop is left (interrupt or error), stop()
\* runs: running = False, stop_processing(): processing = False and the join of
\* the detection thread with its timeout begins (camera_handler.py:149-151)
StopBegin ==
    /\ main.pc = "read"
    /\ processing' = FALSE
    /\ main' = [main EXCEPT !.pc = "join", !.wake = now + JoinTimeout]
    /\ UNCHANGED <<now, virtual_line_y, last_crossing_time, dpc, dzone, current_time,
                   contours, crossings, sysVars, dataVars, serVars, camera_open, cfgVars>>

\* (mutant) a join without timeout
JoinReturnsWhenEnded == dpc = "done"

\* camera_handler.py:151  join(timeout=2.0) returns: the thread has ended or the
\* timeout has passed
JoinReturns == dpc = "done" \/ now >= main.wake

StopJoin ==
    /\ main.pc = "join"
    /\ JoinReturns
    /\ main' = [main EXCEPT !.pc = "close_entry", !.wake = 0]
    /\ UNCHANGED <<now, camVars, sysVars, dataVars, serVars, camera_open, cfgVars>>

\* main.py:123  close_entry_gate(self.serial_comm)
StopCloseEntry ==
    /\ main.pc = "close_entry"
    /\ send_command("CLOSE_ENTRY_GATE")
    /\ main' = [main EXCEPT !.pc = "close_exit"]
    /\ UNCHANGED <<now, camVars, sysVars, dataVars, camera_open, cfgVars>>

\* main.py:124  close_exit_gate(self.serial_comm)
StopCloseExit ==
    /\ main.pc = "close_exit"
    /\ send_command("CLOSE_EXIT_GATE")
    /\ main' = [main EXCEPT !.pc = "buzzer_off"]
    /\ UNCHANGED <<now, camVars, sysVars, dataVars, camera_open, cfgVars>>

\* main.py:125  buzzer_off(self.serial_comm)
StopBuzzerOff ==
    /\ main.pc = "buzzer_off"
    /\ send_command("BUZZER_OFF")
    /\ main' = [main EXCEPT !.pc = "release"]
    /\ UNCHANGED <<now, camVars, sysVars, dataVars, camera_open, cfgVars>>

\* main.py:128, camera_handler.py:401-403  release_camera() calls
\* stop_processing() once more: processing = False, join with its timeout
StopRelease ==
    /\ main.pc = "release"
    /\ processing' = FALSE
    /\ main' = [main EXCEPT !.pc = "join_release", !.wake = now + JoinTimeout]
    /\ UNCHANGED <<now, virtual_line_y, last_crossing_time, dpc, dzone, current_time,
                   contours, crossings, sysVars, dataVars, serVars, camera_open, cfgVars>>

\* camera_handler.py:405-407  the join returns, self.camera.release()
StopCameraRelease ==
    /\ main.pc = "join_release"
    /\ JoinReturns
    /\ camera_open' = FALSE
    /\ main' = [main EXCEPT !.pc = "disconnect", !.wake = 0]
    /\ UNCHANGED <<now, camVars, sysVars, dataVars, serVars, cfgVars>>

\* main.py:129-131, serial_comm.py:70-75  self.serial_comm.disconnect(), the log
\* entry "Parking system stopped" with its time; stop() returns
StopDisconnect ==
    /\ main.pc = "disconnect"
    /\ is_connected' = FALSE
    /\ main' = [main EXCEPT !.pc = "stopped", !.stopped_at = now]
    /\ UNCHANGED <<now, camVars, sysVars, dataVars, sent, camera_open, cfgVars>>

Stop ==
    \/ StopBegin \/ StopJoin \/ StopCloseEntry \/ StopCloseExit \/ StopBuzzerOff
    \/ StopRelease \/ StopCameraRelease \/ StopDisconnect

\* The running system together with its shutdown: stop() may begin at any
\* moment; timer threads and a crossing handler under way go on afterwards.
NextStop == Next \/ DetectorExit \/ Stop

SpecStop == Init /\ [][NextStop]_vars

\* camera_handler.py:329-399  extract_number_plate runs the OCR on the zone
\* image, a call that takes its time; main.py:114-120, camera_handler.py:147-152
\* meanwhile stop() is waiting in a join for the detection thread, which is
\* inside that call, and the join's timeout runs out.
OcrTakesTime ==
    /\ now < EndTime
    /\ main.pc \in {"join", "join_release"}
    /\ now < main.wake
    /\ dpc = "callback"
    /\ h[Detector].pc \in {"extract", "retry"}
    /\ processing_lock = FALSE
    /\ now' = now + 1
    /\ UNCHANGED <<camVars, mainVars, cfgVars, sysVars, dataVars, serVars>>

\* stop() called during a plate extraction (harness): stop_processing() has
\* set processing to False and waits in its join; the detection thread is
\* inside the handler of the crossing just declared, at the plate extraction,
\* with its flag set.  At an exit crossing the vehicle may be parked or not.
ParkedFiles ==
    {EmptyFile,
     [readable |-> TRUE,
      data |-> <<[number_plate |-> "ABC123", entry_time |-> IsoFormat(0), slot |-> 1]>>]}

InitLate ==
    /\ now = StartTime
    /\ processing = FALSE
    /\ virtual_line_y = [z \in Zone |-> VirtualLineRow(ActualHeight)]
    /\ \E z \in Zone :
         /\ dzone = z
         /\ last_crossing_time = [y \in Zone |-> IF y = z THEN StartTime ELSE 0]
         /\ gate_processing = [y \in Zone |-> y = z]
         /\ h = [t \in {Detector} |-> [IdleFrame EXCEPT !.pc = "extract", !.zone = z]]
         /\ vehicles_file \in (IF z = "exit" THEN ParkedFiles ELSE {EmptyFile})
    /\ dpc = "callback"
    /\ current_time = 0
    /\ contours = <<>>
    /\ crossings = MaxCrossings
    /\ total_slots \in 1..MaxSlots
    /\ slot_occupied = FALSE
    /\ processing_lock = FALSE
    /\ timers = <<>>
    /\ history_file = EmptyFile
    /\ faults \in 0..MaxFaults
    /\ sent = <<>>
    /\ is_connected = TRUE
    /\ main = [MainAtLoop EXCEPT !.pc = "join", !.wake = StartTime + JoinTimeout]
    /\ camera_open = TRUE
    /\ config_file = NoConfigFile
    /\ config = load_config(NoConfigFile)
    /\ camera_handler = ConstructedWithDefaults

NextLate ==
    \/ HExtract(Detector) \/ HRetry(Detector) \/ HEntryLookup(Detector) \/ HSlots(Detector)
    \/ HAdd(Detector) \/ HExitLookup(Detector) \/ HFee(Detector) \/ HHistory(Detector)
    \/ HRemove(Detector) \/ HOpen(Detector) \/ HTimer(Detector)
    \/ HClearAcquire(Detector) \/ HClear(Detector)
    \/ CallbackReturn \/ CheckCooldown \/ ScanContours \/ DetectorExit
    \/ \E i \in 1..Len(timers) : Timer(i)
    \/ StopJoin \/ StopCloseEntry \/ StopCloseExit \/ StopBuzzerOff
    \/ StopRelease \/ StopCameraRelease \/ StopDisconnect
    \/ OcrTakesTime
    \/ Tick

SpecLate == InitLate /\ [][NextLate]_vars

\* ------------------------------------------- concurrent callbacks (harness)
\* The crossing handlers as reentrant methods: instead of the one detection
\* thread, several threads call _handle_entry_virtual_line and
\* _handle_exit_virtual_line at any moment, also at the same time.
Callers == {"caller1", "caller2"}

\* a thread calls the zone's handler (main.py:165 / 252)
InvokeCallback(t, z) ==
    /\ h[t].pc = "idle"
    /\ crossings < MaxCrossings
    /\ crossings' = crossings + 1
    /\ h' = [h EXCEPT ![t] = [IdleFrame EXCEPT !.pc = "acquire", !.zone = z]]
    /\ UNCHANGED <<now, processing, virtual_line_y, last_crossing_time, dpc, dzone,
                   current_time, contours, mainVars, cfgVars, total_slots, gate_processing, slot_occupied,
                   processing_lock, timers, dataVars, serVars>>

\* the handler has returned to its caller
CallerReturn(t) ==
    /\ h[t].pc = "returned"
    /\ h' = [h EXCEPT ![t] = IdleFrame]
    /\ UNCHANGED <<now, camVars, mainVars, cfgVars, total_slots, gate_processing, slot_occupied,
                   processing_lock, timers, dataVars, serVars>>

InitConc ==
    /\ now = StartTime
    /\ processing = FALSE
    /\ virtual_line_y = [z \in Zone |-> VirtualLineRow(ActualHeight)]
    /\ last_crossing_time = [z \in Zone |-> 0]
    /\ dpc = "read"
    /\ dzone = "entry"
    /\ current_time = 0
    /\ contours = <<>>
    /\ crossings = 0
    /\ total_slots \in 1..MaxSlots
    /\ gate_processing = [z \in Zone |-> FALSE]
    /\ slot_occupied = FALSE
    /\ processing_lock = FALSE
    /\ h = [t \in Callers |-> IdleFrame]
    /\ timers = <<>>
    /\ vehicles_file = EmptyFile
    /\ history_file = EmptyFile
    /\ faults = MaxFaults
    /\ sent = <<>>
    /\ is_connected = TRUE
    /\ main = MainAtLoop
    /\ camera_open = TRUE
    /\ config_file = NoConfigFile
    /\ config = load_config(NoConfigFile)
    /\ camera_handler = ConstructedWithDefaults

NextConc ==
    \/ \E t \in Threads, z \in Zone : InvokeCallback(t, z)
    \/ \E t \in Threads : CallerReturn(t)
    \/ \E t \in Threads : Handler(t)
    \/ \E i \in 1..Len(timers) : Timer(i)
    \/ MainLoop
    \/ Tick

SpecConc == InitConc /\ [][NextConc]_vars

\* ------------------------------------------- deferred close alone (harness)
\* _close_entry_gate_after_timeout / _close_exit_gate_after_timeout as methods
\* that a timer thread may run in any state of the flags: one or two timers are
\* pending, each zone's flag is set or not, no crossing handler is running.
PendingTimers == { [zone |-> z, due |-> d, pc |-> "waiting"] :
                     z \in Zone, d \in StartTime..(StartTime + 2) }

InitClose ==
    /\ now = StartTime
    /\ processing = FALSE
    /\ virtual_line_y = [z \in Zone |-> VirtualLineRow(ActualHeight)]
    /\ last_crossing_time = [z \in Zone |-> 0]
    /\ dpc = "read"
    /\ dzone = "entry"
    /\ current_time = 0
    /\ contours = <<>>
    /\ crossings = 0
    /\ total_slots \in 1..MaxSlots
    /\ gate_processing \in [Zone -> BOOLEAN]
    /\ slot_occupied \in BOOLEAN
    /\ processing_lock = FALSE
    /\ h = [t \in {Detector} |-> IdleFrame]
    /\ timers \in { <<a>> : a \in PendingTimers }
                    \cup { <<a, b>> : a \in PendingTimers, b \in PendingTimers }
    /\ vehicles_file = EmptyFile
    /\ history_file = EmptyFile
    /\ faults = MaxFaults
    /\ sent = <<>>
    /\ is_connected = TRUE
    /\ main = MainAtLoop
    /\ camera_open = TRUE
    /\ config_file = NoConfigFile
    /\ config = load_config(NoConfigFile)
    /\ camera_handler = ConstructedWithDefaults

NextClose ==
    \/ \E i \in 1..Len(timers) : Timer(i)
    \/ Tick

SpecClose == InitClose /\ [][NextClose]_vars

\* ------------------------------------------------ fee at the exit (harness)
\* The exit handler from the point where it has found the active record of its
\* plate (main.py:295-327), for entry and exit times that lie up to MaxHours
\* hours (and a second) apart; the exit time may lie before the entry time (the
\* wall clock was set back in between).
Durations ==
    { k * SecondsPerHour + d : k \in 0..MaxHours, d \in {-1, 0, 1} } \cup {-SecondsPerHour}

EntryTimes == {SecondsPerHour, SecondsPerHour + 1800}

InitFee ==
    /\ \E e \in EntryTimes, d \in Durations :
         /\ now = e + d
         /\ h = [t \in {Detector} |->
                   [IdleFrame EXCEPT !.pc = "fee", !.zone = "exit", !.number_plate = "ABC123",
                                     !.vehicle_entry = <<[number_plate |-> "ABC123",
                                                          entry_time |-> e, slot |-> 1]>>]]
         /\ vehicles_file = [readable |-> TRUE,
                             data |-> <<[number_plate |-> "ABC123",
                                         entry_time |-> IsoFormat(e), slot |-> 1]>>]
         /\ last_crossing_time = [z \in Zone |-> IF z = "exit" THEN e + d ELSE 0]
    /\ processing = TRUE
    /\ virtual_line_y = [z \in Zone |-> VirtualLineRow(ActualHeight)]
    /\ dpc = "callback"
    /\ dzone = "exit"
    /\ current_time = 0
    /\ contours = <<>>
    /\ crossings = 1
    /\ total_slots \in 1..MaxSlots
    /\ gate_processing = [z \in Zone |-> z = "exit"]
    /\ slot_occupied \in BOOLEAN
    /\ processing_lock = FALSE
    /\ timers = <<>>
    /\ history_file = EmptyFile
    /\ faults = MaxFaults
    /\ sent = <<>>
    /\ is_connected = TRUE
    /\ main = MainAtLoop
    /\ camera_open = TRUE
    /\ config_file = NoConfigFile
    /\ config = load_config(NoConfigFile)
    /\ camera_handler = ConstructedWithDefaults

NextFee ==
    \/ HFee(Detector) \/ HHistory(Detector) \/ HRemove(Detector)
    \/ HOpen(Detector) \/ HTimer(Detector)

SpecFee == InitFee /\ [][NextFee]_vars

\* ------------------------------------------ history at the exit (harness)
\* The exit handler from the same point, the history store holding what
\* earlier runs left: nothing, the record of an earlier stay, or a file that
\* cannot be read as JSON (a write that broke off).
EarlierStay ==
    [number_plate |-> "XYZ999", entry_time |-> IsoFormat(0),
     exit_time |-> IsoFormat(SecondsPerHour), fee |-> hourly_rate, slot |-> 1]

HistoryFiles ==
    {EmptyFile, [readable |-> TRUE, data |-> <<EarlierStay>>],
     [readable |-> FALSE, data |-> <<>>]}

InitHist ==
    /\ \E e \in EntryTimes, d \in {0, 1, SecondsPerHour} :
         /\ now = e + d
         /\ h = [t \in {Detector} |->
                   [IdleFrame EXCEPT !.pc = "fee", !.zone = "exit", !.number_plate = "ABC123",
                                     !.vehicle_entry = <<[number_plate |-> "ABC123",
                                                          entry_time |-> e, slot |-> 1]>>]]
         /\ vehicles_file = [readable |-> TRUE,
                             data |-> <<[number_plate |-> "ABC123",
                                         entry_time |-> IsoFormat(e), slot |-> 1]>>]
         /\ last_crossing_time = [z \in Zone |-> IF z = "exit" THEN e + d ELSE 0]
    /\ processing = TRUE
    /\ virtual_line_y = [z \in Zone |-> VirtualLineRow(ActualHeight)]
    /\ dpc = "callback"
    /\ dzone = "exit"
    /\ current_time = 0
    /\ contours = <<>>
    /\ crossings = 1
    /\ total_slots \in 1..MaxSlots
    /\ gate_processing = [z \in Zone |-> z = "exit"]
    /\ slot_occupied \in BOOLEAN
    /\ processing_lock = FALSE
    /\ timers = <<>>
    /\ history_file \in HistoryFiles
    /\ faults \in 0..MaxFaults
    /\ sent = <<>>
    /\ is_connected = TRUE
    /\ main = MainAtLoop
    /\ camera_open = TRUE
    /\ config_file = NoConfigFile
    /\ config = load_config(NoConfigFile)
    /\ camera_handler = ConstructedWithDefaults

NextHist ==
    \/ HFee(Detector) \/ HHistory(Detector) \/ HRemove(Detector)
    \/ HOpen(Detector) \/ HTimer(Detector)

SpecHist == InitHist /\ [][NextHist]_vars

\* ------------------------------------------- slot selection (harness)
\* The entry handler from the point where it holds the plate ABC123
\* (main.py:210-242), over the stores it may find there: empty, or holding the
\* record of another vehicle in slot 1 or 2.  With one slot in all and that
\* slot taken, this is the case the code calls a race with the ledger check.
OtherVehicle(slot) ==
    [number_plate |-> "XYZ999", entry_time |-> IsoFormat(0), slot |-> slot]

VehicleFiles ==
    {EmptyFile} \cup { [readable |-> TRUE, data |-> <<OtherVehicle(n)>>] : n \in 1..MaxSlots }

InitSlot ==
    /\ now \in StartTime..(StartTime + 1)
    /\ processing = TRUE
    /\ virtual_line_y = [z \in Zone |-> VirtualLineRow(ActualHeight)]
    /\ last_crossing_time = [z \in Zone |-> IF z = "entry" THEN StartTime ELSE 0]
    /\ dpc = "callback"
    /\ dzone = "entry"
    /\ current_time = 0
    /\ contours = <<>>
    /\ crossings = 1
    /\ total_slots \in 1..MaxSlots
    /\ gate_processing = [z \in Zone |-> z = "entry"]
    /\ slot_occupied \in BOOLEAN
    /\ processing_lock = FALSE
    /\ h = [t \in {Detector} |->
              [IdleFrame EXCEPT !.pc = "lookup", !.zone = "entry", !.number_plate = "ABC123",
                                !.attempts = 1, !.image = "zone_image"]]
    /\ timers = <<>>
    /\ vehicles_file \in VehicleFiles
    /\ history_file = EmptyFile
    /\ faults \in 0..MaxFaults
    /\ sent = <<>>
    /\ is_connected = TRUE
    /\ main = MainAtLoop
    /\ camera_open = TRUE
    /\ config_file = NoConfigFile
    /\ config = load_config(NoConfigFile)
    /\ camera_handler = ConstructedWithDefaults

NextSlot ==
    \/ HEntryLookup(Detector) \/ HSlots(Detector) \/ HAdd(Detector)
    \/ HOpen(Detector) \/ HTimer(Detector)
    \/ HClearAcquire(Detector) \/ HClear(Detector)

SpecSlot == InitSlot /\ [][NextSlot]_vars

\* ------------------------------------------------- callbacks that raise
\* The positions of a handler outside its `with self.processing_lock` blocks:
\* the calls made there (OCR, store, fee, serial port, Timer.start()) may raise.
RaisePcs == {"full_check", "buzzer_on", "buzzer_sleep", "extract", "retry", "lookup",
             "slots", "add", "fee", "history", "remove", "open", "timer"}

\* camera_handler.py:245-248  an exception leaves the callback: the handler's
\* frame is abandoned where it stood
CallbackRaises ==
    /\ dpc = "callback"
    /\ h[Detector].pc \in RaisePcs
    /\ h' = [h EXCEPT ![Detector].pc = "raised", ![Detector].wake = 0]
    /\ UNCHANGED <<now, camVars, mainVars, cfgVars, total_slots, gate_processing, slot_occupied,
                   processing_lock, timers, dataVars, serVars>>

\* (mutant) the exception is not caught: it ends the detection thread
CallbackCaughtEndsLoop ==
    /\ dpc = "callback"
    /\ h[Detector].pc = "raised"
    /\ h' = [h EXCEPT ![Detector] = IdleFrame]
    /\ dpc' = "done"
    /\ UNCHANGED <<now, processing, virtual_line_y, last_crossing_time, dzone, current_time,
                   contours, crossings, mainVars, cfgVars, total_slots, gate_processing,
                   slot_occupied, processing_lock, timers, dataVars, serVars>>

\* camera_handler.py:247-250  except Exception: log the error; break
CallbackCaught ==
    /\ dpc = "callback"
    /\ h[Detector].pc = "raised"
    /\ h' = [h EXCEPT ![Detector] = IdleFrame]
    /\ AfterCheck(dzone)
    /\ UNCHANGED <<now, processing, virtual_line_y, last_crossing_time, current_time,
                   contours, crossings, mainVars, cfgVars, total_slots, gate_processing,
                   slot_occupied, processing_lock, timers, dataVars, serVars>>

NextRaise == Next \/ CallbackRaises \/ CallbackCaught

SpecRaise == Init /\ [][NextRaise]_vars

\* ------------------------------------------- camera start (first frame)
\* camera_handler.py:201 / 210  zone_virtual_line_y = virtual_line_y - y1 with
\* virtual_line_y None raises TypeError; _process_frames (154-177) has no
\* try around the check, so the exception ends the detection thread, with
\* self.processing still True
CheckRaises ==
    /\ dpc = "check"
    /\ virtual_line_y[dzone] = None
    /\ dpc' = "done"
    /\ UNCHANGED <<now, processing, virtual_line_y, last_crossing_time, dzone, current_time,
                   contours, crossings, mainVars, cfgVars, sysVars, dataVars, serVars>>

\* The state after ParkingSystem.start(), the first read of the camera having
\* succeeded or failed.
InitCam ==
    /\ now = StartTime
    /\ processing = TRUE
    /\ \E ret \in BOOLEAN : virtual_line_y = initialize_camera(ret, ActualHeight)
    /\ last_crossing_time = [z \in Zone |-> 0]
    /\ dpc = "read"
    /\ dzone = "entry"
    /\ current_time = 0
    /\ contours = <<>>
    /\ crossings = 0
    /\ total_slots \in 1..MaxSlots
    /\ gate_processing = [z \in Zone |-> FALSE]
    /\ slot_occupied = FALSE
    /\ processing_lock = FALSE
    /\ h = [t \in {Detector} |-> IdleFrame]
    /\ timers = <<>>
    /\ vehicles_file = EmptyFile
    /\ history_file = EmptyFile
    /\ faults = MaxFaults
    /\ sent = <<>>
    /\ is_connected = TRUE
    /\ main = MainAtLoop
    /\ camera_open = TRUE
    /\ config_file = NoConfigFile
    /\ config = load_config(NoConfigFile)
    /\ camera_handler = ConstructedWithDefaults

NextCam == Next \/ CheckRaises

SpecCam == InitCam /\ [][NextCam]_vars

\* ------------------------------------------- inbound messages (harness)
\* The main loop taken message by message, in any state of the flags and with
\* or without a parked vehicle; no crossing is being handled.
InitMsg ==
    /\ now = StartTime
    /\ processing = TRUE
    /\ virtual_line_y = [z \in Zone |-> VirtualLineRow(ActualHeight)]
    /\ last_crossing_time = [z \in Zone |-> 0]
    /\ dpc = "read"
    /\ dzone = "entry"
    /\ current_time = 0
    /\ contours = <<>>
    /\ crossings = 0
    /\ total_slots \in 1..MaxSlots
    /\ gate_processing \in [Zone -> BOOLEAN]
    /\ slot_occupied \in BOOLEAN
    /\ processing_lock = FALSE
    /\ h = [t \in {Detector} |-> IdleFrame]
    /\ timers = <<>>
    /\ vehicles_file \in
         { EmptyFile,
           [readable |-> TRUE,
            data |-> <<[number_plate |-> "ABC123", entry_time |-> IsoFormat(StartTime),
                        slot |-> 1]>>] }
    /\ history_file = EmptyFile
    /\ faults = MaxFaults
    /\ sent = <<>>
    /\ is_connected = TRUE
    /\ main = MainAtLoop
    /\ camera_open = TRUE
    /\ config_file = NoConfigFile
    /\ config = load_config(NoConfigFile)
    /\ camera_handler = ConstructedWithDefaults

NextMsg == MLRead \/ MLHandle \/ MLSleep

SpecMsg == InitMsg /\ [][NextMsg]_vars

\* Construction of the camera handler over every configuration file and both
\* values of use_config; nothing else has been started yet (main.py:59-62).
InitCfg ==
    /\ now = StartTime
    /\ processing = FALSE
    /\ virtual_line_y = [z \in Zone |-> VirtualLineRow(ActualHeight)]
    /\ last_crossing_time = [z \in Zone |-> 0]
    /\ dpc = "read"
    /\ dzone = "entry"
    /\ current_time = 0
    /\ contours = <<>>
    /\ crossings = 0
    /\ total_slots = 1
    /\ gate_processing = [z \in Zone |-> FALSE]
    /\ slot_occupied = FALSE
    /\ processing_lock = FALSE
    /\ h = [t \in {Detector} |-> IdleFrame]
    /\ timers = <<>>
    /\ vehicles_file = EmptyFile
    /\ history_file = EmptyFile
    /\ faults = MaxFaults
    /\ sent = <<>>
    /\ is_connected = FALSE
    /\ main = MainAtLoop
    /\ camera_open = FALSE
    /\ config_file \in ConfigFiles
    /\ config = NoConfig
    /\ camera_handler \in { Unconstructed(u) : u \in BOOLEAN }

NextCfg == InitLoad \/ InitZones \/ InitGets \/ InitDefaults

SpecCfg == InitCfg /\ [][NextCfg]_vars

\* ================================================================== claims
\* Steps of a handler execution: the step changes thread t's handler frame.
Steps(t) == h'[t] # h[t]

ActiveRecords == ReadJson(vehicles_file)
HistoryRecords == ReadJson(history_file)

\* C1: a crossing callback that arrives while its zone's processing flag is true
\* is dropped: the handler's step at the flag test returns at once, and neither
\* store, nor the commands sent, nor the timers, nor the flags change (no plate
\* extraction, no record, no command, no close timer, flag still true).
C1_DroppedWhileProcessing ==
    [][ \A t \in Threads :
          (h[t].pc = "test" /\ gate_processing[h[t].zone] /\ Steps(t)) =>
              /\ h'[t] = [h[t] EXCEPT !.pc = "returned"]
              /\ h'[t].number_plate = NoPlate
              /\ gate_processing' = gate_processing
              /\ gate_processing'[h[t].zone]
              /\ UNCHANGED <<vehicles_file, history_file, sent, timers, slot_occupied>>
      ]_vars

\* C1 witness: a callback has been dropped: it returned without a plate while
\* its zone's flag is true and the first execution's close timer is pending.
C1_Witness ==
    \E t \in Threads :
        /\ h[t].pc = "returned"
        /\ h[t].number_plate = NoPlate
        /\ gate_processing[h[t].zone]
        /\ \E i \in 1..Len(timers) : timers[i].zone = h[t].zone /\ timers[i].pc = "waiting"

\* A handler execution of zone z that has passed the flag test and has not yet
\* cleared the flag or handed it to its close timer.
PastCheck(t, z) ==
    /\ h[t].zone = z
    /\ h[t].pc \notin {"idle", "acquire", "test", "returned"}

\* The gate actions of zone z in flight: handler executions past the check plus
\* close timers that have not yet cleared the flag.
InFlight(z) ==
    Cardinality({ t \in Threads : PastCheck(t, z) })
      + Cardinality({ i \in 1..Len(timers) : timers[i].zone = z })

\* C2: the check-and-set of the processing flag is indivisible: of the handler
\* executions of one zone, at most one is past the flag test before the flag is
\* cleared again (by the handler or by its close timer), however the callbacks
\* of concurrent callers interleave.
C2_AtomicCheckAndSet == \A z \in Zone : InFlight(z) <= 1

\* C2 witness: two callers are inside the handler of the same zone at the same
\* time; one has passed the check, the other is held at the lock.
C2_Witness ==
    \E t \in Threads, u \in Threads :
        /\ t # u
        /\ h[t].zone = h[u].zone
        /\ h[t].pc = "set"
        /\ h[u].pc = "acquire"

\* C3: two declared crossings of one zone are never closer together than the
\* cooldown: whenever a zone's last-crossing timestamp is set anew, the new
\* value lies at least crossing_cooldown after the old one.
C3_CooldownSpacing ==
    [][ \A z \in Zone :
          last_crossing_time'[z] # last_crossing_time[z] =>
              last_crossing_time'[z] - last_crossing_time[z] >= crossing_cooldown
      ]_vars

\* C3 witness: the same zone has declared a second crossing (the other zone none).
C3_Witness ==
    \E z \in Zone :
        /\ crossings = 2
        /\ last_crossing_time[z] >= StartTime + crossing_cooldown
        /\ \A y \in Zone \ {z} : last_crossing_time[y] = 0

\* No crossing is declared by the step: no timestamp, no callback.
NothingDeclared == UNCHANGED <<last_crossing_time, crossings, h>>

\* C4: a mask whose contours all have an area below motion_threshold declares no
\* crossing, wherever the contours lie relative to the trigger row.
C4_SmallAreaNeverTriggers ==
    [][ ( /\ dpc = "scan"
          /\ \A i \in 1..Len(contours) : contours[i].area < motion_threshold )
        => NothingDeclared ]_vars

\* C4 witness: the scan is about to run over a contour that lies across the
\* trigger row but is below the threshold.
C4_Witness ==
    /\ dpc = "scan"
    /\ Len(contours) = 2
    /\ \A i \in 1..Len(contours) : contours[i].area < motion_threshold
    /\ \E i \in 1..Len(contours) :
         /\ contours[i].y < virtual_line_y[dzone] - ZoneY1(dzone)
         /\ contours[i].y + contours[i].h > virtual_line_y[dzone] - ZoneY1(dzone)

\* The contour lies entirely above or entirely below the zone-relative trigger row.
OffLine(c, z) ==
    LET row == virtual_line_y[z] - ZoneY1(z)
    IN  c.y + c.h < row \/ c.y > row

\* C5: a mask none of whose contours has top <= trigger row <= bottom declares
\* no crossing, whatever the contours' areas.
C5_OffLineNeverTriggers ==
    [][ ( /\ dpc = "scan"
          /\ \A i \in 1..Len(contours) : OffLine(contours[i], dzone) )
        => NothingDeclared ]_vars

\* C5 witness: the scan is about to run over two contours at or above the
\* threshold, one entirely above and one entirely below the trigger row.
C5_Witness ==
    /\ dpc = "scan"
    /\ Len(contours) = 2
    /\ \A i \in 1..Len(contours) : contours[i].area >= motion_threshold
    /\ contours[1].y + contours[1].h < virtual_line_y[dzone] - ZoneY1(dzone)
    /\ contours[2].y > virtual_line_y[dzone] - ZoneY1(dzone)

\* The plate has a record among the active vehicles.
IsActive(plate) == \E i \in 1..Len(ActiveRecords) : ActiveRecords[i].number_plate = plate

\* The step leaves both stores, the commands sent and the timers as they are.
NoEffect == UNCHANGED <<vehicles_file, history_file, sent, timers>>

\* The abort path of a handler: take the lock, clear the zone's flag, return;
\* nothing else changes.
AbortStep(t) ==
    /\ h[t].pc = "clear_acquire" =>
           h'[t].pc = "clear" /\ NoEffect /\ UNCHANGED gate_processing
    /\ h[t].pc = "clear" =>
           /\ h'[t].pc = "returned"
           /\ NoEffect
           /\ gate_processing' = [gate_processing EXCEPT ![h[t].zone] = FALSE]

\* C6: duplicate entry: once the entry handler holds a plate that already has an
\* active record, none of its steps changes the active records (no second
\* record), sends a command (no OPEN_ENTRY_GATE) or starts a timer; it goes to
\* the abort path, which clears the entry flag and returns.
C6_DuplicateEntryDenied ==
    [][ \A t \in Threads :
          (h[t].zone = "entry" /\ Steps(t)) =>
              /\ (h[t].pc \in {"lookup", "slots", "add"} /\ IsActive(h[t].number_plate)) =>
                     /\ NoEffect
                     /\ UNCHANGED gate_processing
                     /\ h'[t].pc \in {"slots", "add", "clear_acquire"}
                     /\ h'[t].number_plate = h[t].number_plate
              /\ (h[t].pc = "add" /\ IsActive(h[t].number_plate)) =>
                     h'[t].pc = "clear_acquire"
              /\ AbortStep(t)
      ]_vars

\* C6 witness: the entry handler is on the abort path with a resolved plate that
\* has an active record, and a free slot exists.
C6_Witness ==
    \E t \in Threads :
        /\ At(t, "entry", "clear_acquire")
        /\ h[t].number_plate \in Plates
        /\ IsActive(h[t].number_plate)
        /\ Len(ActiveRecords) = 1
        /\ total_slots = 2
        /\ ~slot_occupied

\* Every slot 1..total_slots is held by an active record.
LedgerFull == \A n \in 1..total_slots : \E i \in 1..Len(ActiveRecords) : ActiveRecords[i].slot = n

\* C7: entry when full: if at the entry handler's full check every slot is held
\* by an active record or the hardware occupancy flag is set, the handler sends
\* BUZZER_ON, then BUZZER_OFF, then clears the entry flag and returns; it
\* extracts no plate, changes no record, sends no other command, and the entry
\* flag stays true until BUZZER_OFF has been sent.
C7_FullEntryBuzzes ==
    [][ \A t \in Threads :
          (h[t].zone = "entry" /\ Steps(t)) =>
              /\ (h[t].pc = "full_check" /\ (LedgerFull \/ slot_occupied)) =>
                     /\ h'[t].pc = "buzzer_on"
                     /\ NoEffect
              /\ h[t].pc = "buzzer_on" =>
                     /\ sent' = Append(sent, "BUZZER_ON")
                     /\ h'[t].pc = "buzzer_sleep"
              /\ h[t].pc = "buzzer_sleep" =>
                     /\ sent' = Append(sent, "BUZZER_OFF")
                     /\ h'[t].pc = "clear_acquire"
              /\ h[t].pc \in {"full_check", "buzzer_on", "buzzer_sleep"} =>
                     /\ gate_processing["entry"] /\ gate_processing'["entry"]
                     /\ h'[t].number_plate = NoPlate
                     /\ UNCHANGED <<vehicles_file, history_file, timers>>
              /\ AbortStep(t)
      ]_vars

\* C7 witness: with an empty ledger and the hardware flag set, the entry handler
\* has sent BUZZER_ON and BUZZER_OFF and returned with the entry flag cleared.
C7_Witness ==
    \E t \in Threads :
        /\ At(t, "entry", "returned")
        /\ h[t].number_plate = NoPlate
        /\ ~gate_processing["entry"]
        /\ sent = <<"BUZZER_ON", "BUZZER_OFF">>
        /\ ActiveRecords = <<>>
        /\ vehicles_file.readable

\* The store has worked so far and both files are readable.
StoreHealthy == faults = MaxFaults /\ vehicles_file.readable /\ history_file.readable

\* The close timers of the entry gate.
EntryTimers(ts) == { i \in 1..Len(ts) : ts[i].zone = "entry" }

\* Steps of timer i: the timer moves on or ends (a timer appended by a handler
\* leaves the existing ones in place).
TimerSteps(i) == Len(timers') < Len(timers) \/ timers'[i] # timers[i]

\* C8: the end-to-end scenario with one slot and a working store, step by step.
\* First crossing, empty ledger, occupancy flag clear: the full check passes on
\* to the plate reader; with the plate ABC123 the add step makes the ledger
\* exactly one record (ABC123, now, slot 1); only then OPEN_ENTRY_GATE is sent;
\* then a close timer due GateTimeout later is started, the entry flag still
\* true.  CLOSE_ENTRY_GATE is sent only by an entry timer whose due time has
\* come, and that timer's next step clears the entry flag.  Second crossing,
\* slot 1 still held: the full check goes to the buzzer, BUZZER_ON and then
\* BUZZER_OFF are sent, and the ledger stays as it is.
C8_EndToEndOneSlot ==
    [][ (total_slots = 1 /\ StoreHealthy) =>
          /\ \A t \in Threads : (h[t].zone = "entry" /\ Steps(t)) =>
               /\ (h[t].pc = "full_check" /\ ActiveRecords = <<>> /\ ~slot_occupied) =>
                      h'[t].pc = "extract" /\ NoEffect
               /\ (h[t].pc = "slots" /\ ActiveRecords = <<>>) =>
                      h'[t].pc = "add" /\ h'[t].slot = 1 /\ NoEffect
               /\ (h[t].pc = "add" /\ h[t].number_plate = "ABC123"
                     /\ ActiveRecords = <<>> /\ faults' = faults) =>
                      /\ vehicles_file' = [readable |-> TRUE,
                                           data |-> <<[number_plate |-> "ABC123",
                                                       entry_time |-> IsoFormat(now),
                                                       slot |-> 1]>>]
                      /\ h'[t].pc = "open"
                      /\ UNCHANGED <<sent, timers, history_file>>
               /\ h[t].pc = "open" =>
                      /\ \E i \in 1..Len(ActiveRecords) :
                           /\ ActiveRecords[i].number_plate = h[t].number_plate
                           /\ ActiveRecords[i].slot = 1
                      /\ sent' = Append(sent, "OPEN_ENTRY_GATE")
                      /\ h'[t].pc = "timer"
                      /\ UNCHANGED <<vehicles_file, timers, gate_processing>>
               /\ h[t].pc = "timer" =>
                      /\ timers' = Append(timers, [zone |-> "entry", due |-> now + GateTimeout,
                                                   pc |-> "waiting"])
                      /\ gate_processing'["entry"]
                      /\ UNCHANGED <<vehicles_file, sent>>
               /\ (h[t].pc = "full_check" /\ Len(ActiveRecords) = 1
                     /\ ActiveRecords[1].slot = 1) =>
                      h'[t].pc = "buzzer_on" /\ NoEffect
               /\ h[t].pc = "buzzer_on" =>
                      /\ sent' = Append(sent, "BUZZER_ON")
                      /\ h'[t].pc = "buzzer_sleep"
                      /\ UNCHANGED vehicles_file
               /\ h[t].pc = "buzzer_sleep" =>
                      /\ sent' = Append(sent, "BUZZER_OFF")
                      /\ now >= h[t].wake
                      /\ UNCHANGED vehicles_file
          /\ sent' = Append(sent, "CLOSE_ENTRY_GATE") =>
               \E i \in EntryTimers(timers) :
                   /\ timers[i].pc = "test"
                   /\ now >= timers[i].due
                   /\ timers'[i].pc = "clear"
                   /\ gate_processing["entry"]
          /\ \A i \in EntryTimers(timers) :
               /\ (timers[i].pc = "test" /\ TimerSteps(i)) =>
                      sent' = Append(sent, "CLOSE_ENTRY_GATE")
               /\ (timers[i].pc = "clear" /\ TimerSteps(i)) =>
                      ~gate_processing'["entry"] /\ UNCHANGED <<sent, vehicles_file>>
      ]_vars

\* C8 witness: the scenario has run to its end: one slot, ABC123 admitted at the
\* start into slot 1, gate opened and closed, the second crossing answered by
\* the buzzer, one record in the ledger, entry flag clear.
C8_Witness ==
    /\ total_slots = 1
    /\ StoreHealthy
    /\ ~slot_occupied
    /\ sent = <<"OPEN_ENTRY_GATE", "CLOSE_ENTRY_GATE", "BUZZER_ON", "BUZZER_OFF">>
    /\ ActiveRecords = <<[number_plate |-> "ABC123", entry_time |-> IsoFormat(StartTime),
                          slot |-> 1]>>
    /\ ~gate_processing["entry"]
    /\ timers = <<>>
    /\ \E t \in Threads : At(t, "entry", "returned") /\ h[t].number_plate = NoPlate

\* The history holds a record of the plate.
InHistory(plate) == \E i \in 1..Len(HistoryRecords) : HistoryRecords[i].number_plate = plate

\* C9: entry persistence failure: the entry handler has sent OPEN_ENTRY_GATE
\* (it stands at the start of the close timer) only if the active record of its
\* plate is in the store; a failed write never leads to an opened gate.
C9_EntryGateOnlyWithRecord ==
    \A t \in Threads :
        At(t, "entry", "timer") => IsActive(h[t].number_plate)

\* C10: exit persistence failure: the exit handler has sent OPEN_EXIT_GATE (it
\* stands at the start of the close timer) only if the history record was
\* appended and the active record was removed.
C10_ExitGateOnlyWhenPersisted ==
    \A t \in Threads :
        At(t, "exit", "timer") =>
            InHistory(h[t].number_plate) /\ ~IsActive(h[t].number_plate)

\* C11: exit of an unknown plate: once the exit handler holds a plate without an
\* active record, its lookup step goes to the abort path and changes nothing: no
\* history record, no active record removed, no OPEN_EXIT_GATE, no close timer;
\* the abort path clears the exit flag and returns.
C11_UnknownExitDenied ==
    [][ \A t \in Threads :
          (h[t].zone = "exit" /\ Steps(t)) =>
              /\ (h[t].pc = "lookup" /\ ~IsActive(h[t].number_plate)) =>
                     /\ h'[t].pc = "clear_acquire"
                     /\ NoEffect
                     /\ UNCHANGED gate_processing
              /\ AbortStep(t)
      ]_vars

\* C11 witness: the exit handler has returned over the abort path with a plate
\* that has no active record while another vehicle is parked; nothing was sent
\* for the exit gate, the history is empty and the exit flag is clear.
C11_Witness ==
    \E t \in Threads :
        /\ At(t, "exit", "returned")
        /\ h[t].number_plate \in Plates
        /\ ~IsActive(h[t].number_plate)
        /\ Len(ActiveRecords) = 1
        /\ HistoryRecords = <<>>
        /\ sent = <<"OPEN_ENTRY_GATE">>
        /\ ~gate_processing["exit"]
        /\ \A i \in 1..Len(timers) : timers[i].zone = "entry"

\* C12: auto-close guard: a close handler at its flag test sends a command only
\* if its zone's flag is true, and then exactly the CLOSE command of its own
\* gate; with the flag false it sends nothing.  When the handler ends, its
\* zone's flag is false.
C12_AutoCloseGuard ==
    [][ \A i \in 1..Len(timers) :
          /\ (timers[i].pc = "test" /\ TimerSteps(i)) =>
                 /\ gate_processing[timers[i].zone] =>
                        sent' = Append(sent, CloseCommand(timers[i].zone))
                 /\ ~gate_processing[timers[i].zone] => sent' = sent
          /\ (timers[i].pc \in {"test", "clear"} /\ Len(timers') < Len(timers)) =>
                 ~gate_processing'[timers[i].zone]
          /\ (timers[i].pc = "clear" /\ TimerSteps(i)) => sent' = sent
      ]_vars

\* C12 witness: the entry timer found its flag true, sent CLOSE_ENTRY_GATE and
\* cleared the flag; the exit timer has fired and stands at its test with the
\* exit flag false.
C12_Witness ==
    /\ timers = <<[zone |-> "exit", due |-> StartTime + 1, pc |-> "test"]>>
    /\ ~gate_processing["exit"]
    /\ ~gate_processing["entry"]
    /\ sent = <<"CLOSE_ENTRY_GATE">>

\* How often the command has been sent so far.
Count(command) == Cardinality({ i \in 1..Len(sent) : sent[i] = command })

\* Gate z has been opened and not closed since.
Unclosed(z) == Count(OpenCommand(z)) > Count(CloseCommand(z))

\* The close timer of the last OPEN of gate z comes due within the clock's range.
TimerComesDue(z) ==
    \/ \E t \in Threads : At(t, z, "timer") /\ now + GateTimeout <= EndTime
    \/ \E i \in 1..Len(timers) : timers[i].zone = z /\ timers[i].due <= EndTime

\* C13: per gate, OPEN and CLOSE alternate, starting with OPEN: no second OPEN
\* is sent while the gate is unclosed and no CLOSE without an OPEN before it;
\* and every OPEN whose timer comes due is eventually followed by the CLOSE of
\* the same gate.
C13_OpenThenClose ==
    /\ [](\A z \in Zone : Count(OpenCommand(z)) - Count(CloseCommand(z)) \in {0, 1})
    /\ \A z \in Zone : (Unclosed(z) /\ TimerComesDue(z)) ~> ~Unclosed(z)

\* C13 witness: both gates have been opened and each has been closed by its timer.
C13_Witness ==
    /\ sent = <<"OPEN_ENTRY_GATE", "OPEN_EXIT_GATE", "CLOSE_ENTRY_GATE", "CLOSE_EXIT_GATE">>
    /\ timers = <<>>
    /\ \A z \in Zone : ~gate_processing[z]

\* Zone z has just gone from Idle to Processing: its handler has set the flag
\* and stands at its first statement after the check-and-set, early enough for
\* the longest wait on any of its paths (the close timer) to end within the
\* clock's range.
EntersProcessing(z) ==
    /\ gate_processing[z]
    /\ \E t \in Threads :
         At(t, z, IF z = "entry" THEN "full_check" ELSE "extract")
    /\ now + GateTimeout <= EndTime

Ceiling(n, d) == CHOOSE k \in 1..n : k * d >= n /\ (k - 1) * d < n

\* The duration for which the exit handler at its fee computation bills.
Stay(t) == now - h[t].vehicle_entry[1].entry_time

\* C15: fee rounding: for every exit time strictly after the entry time the fee
\* computed at the exit is ceil(duration in seconds / 3600) times the hourly
\* rate; 1 second bills one hour, 3600 seconds one hour, 3601 seconds two.
C15_FeeRounding ==
    [][ \A t \in Threads :
          (h[t].pc = "fee" /\ Steps(t) /\ Stay(t) > 0) =>
              /\ h'[t].fee = Ceiling(Stay(t), 3600) * hourly_rate
              /\ Stay(t) = 1 => h'[t].fee = hourly_rate
              /\ Stay(t) = 3600 => h'[t].fee = hourly_rate
              /\ Stay(t) = 3601 => h'[t].fee = 2 * hourly_rate
      ]_vars

\* C15 witness: the fee of a stay of 3601 seconds has been computed: two hours.
C15_Witness ==
    \E t \in Threads :
        /\ h[t].pc = "history"
        /\ h[t].exit_time - h[t].vehicle_entry[1].entry_time = 3601
        /\ h[t].fee = 2 * hourly_rate

\* C16: negative duration: when the exit time lies before the entry time the fee
\* computed at the exit is 0 and the error is logged; and no history record
\* ever holds a negative fee.
C16_NegativeDurationFeeZero ==
    /\ [](\A i \in 1..Len(HistoryRecords) : HistoryRecords[i].fee >= 0)
    /\ [][ \A t \in Threads :
             (h[t].pc = "fee" /\ Steps(t) /\ Stay(t) < 0) =>
                 h'[t].fee = 0 /\ h'[t].fee_error
         ]_vars

\* C16 witness: the history holds the record of a stay whose exit lies a full
\* hour before its entry, with the fee 0.
C16_Witness ==
    \E i \in 1..Len(HistoryRecords) :
        /\ FromIsoFormat(HistoryRecords[i].exit_time)
             = FromIsoFormat(HistoryRecords[i].entry_time) - 3600
        /\ HistoryRecords[i].fee = 0

Recognized == {"SLOT_OCCUPIED", "SLOT_FREE"}

\* The positions of the recognized messages of the batch the main loop holds.
RecognizedAt == { i \in 1..Len(main.messages) : main.messages[i] \in Recognized }

\* The main loop has handled every message of its batch.
BatchDone == main.pc = "handle" /\ main.i > Len(main.messages)

\* C17: inbound messages: handling SLOT_OCCUPIED sets the occupancy flag,
\* SLOT_FREE clears it, any other message leaves it as it is; no message touches
\* the processing flags or the records; and when a batch has been handled the
\* flag has the value of the batch's last recognized message.
C17_InboundMessages ==
    /\ [][ (main.pc = "handle" /\ main' # main /\ main.i <= Len(main.messages)) =>
             LET message == main.messages[main.i]
             IN  /\ message = "SLOT_OCCUPIED" => slot_occupied'
                 /\ message = "SLOT_FREE" => ~slot_occupied'
                 /\ message \notin Recognized => UNCHANGED slot_occupied
                 /\ UNCHANGED <<gate_processing, vehicles_file, history_file>>
         ]_vars
    /\ []( (BatchDone /\ RecognizedAt # {}) =>
             LET last == CHOOSE i \in RecognizedAt : \A j \in RecognizedAt : j <= i
             IN  slot_occupied = (main.messages[last] = "SLOT_OCCUPIED") )

\* C17 witness: the batch SLOT_OCCUPIED, READY has been handled: the occupancy
\* flag is set, with the entry flag set and a vehicle parked as before.
C17_Witness ==
    /\ BatchDone
    /\ main.messages = <<"SLOT_OCCUPIED", "READY">>
    /\ slot_occupied
    /\ gate_processing["entry"]
    /\ Len(ActiveRecords) = 1

\* stop() has completed and the actuator channel is disconnected.
ShutDown == main.pc = "stopped" /\ ~is_connected

\* C18: a close handler that fires after shutdown is a no-op: with stop()
\* completed before the timer came due and the channel disconnected, the
\* handler at its flag test writes no command and leaves the channel closed.
C18_LateCloseIsNoOp ==
    [][ \A i \in 1..Len(timers) :
          (ShutDown /\ timers[i].due > main.stopped_at
             /\ timers[i].pc = "test" /\ TimerSteps(i)) =>
              sent' = sent /\ ~is_connected'
      ]_vars

\* The positions of stop() after the detection loop has been signalled.
StopPcs == {"join", "close_entry", "close_exit", "buzzer_off", "release", "join_release",
            "disconnect", "stopped"}

\* The command stop() sends at the given position.
StopCommand(pc) ==
    CASE pc = "close_entry" -> "CLOSE_ENTRY_GATE"
      [] pc = "close_exit" -> "CLOSE_EXIT_GATE"
      [] pc = "buzzer_off" -> "BUZZER_OFF"

\* C19: shutdown ordering.  stop() first sets processing to false and joins the
\* detection thread, waiting no longer than the join timeout; then it sends
\* CLOSE_ENTRY_GATE, CLOSE_EXIT_GATE and BUZZER_OFF in this order, with the
\* camera still open and the channel still connected; only then it releases the
\* camera, and only then disconnects the channel.  No step of stop() waits for
\* the detection thread beyond the timeout: once the timeout has passed, and at
\* every other step, stop() can go on whatever the detection thread is doing.
C19_ShutdownOrdering ==
    /\ [](main.pc \in StopPcs => ~processing)
    /\ [](main.pc \in (StopPcs \ {"disconnect", "stopped"}) => camera_open)
    /\ [](main.pc \in (StopPcs \ {"stopped"}) => is_connected)
    /\ [](main.pc = "read" => processing /\ camera_open /\ is_connected)
    /\ []((main.pc \in {"join", "join_release"} /\ now >= main.wake) => ENABLED Stop)
    /\ [](main.pc \in {"close_entry", "close_exit", "buzzer_off", "release", "disconnect"}
            => ENABLED Stop)
    /\ [][ main' # main =>
             /\ main.pc = "read" =>
                    main'.pc = "join" /\ ~processing' /\ main'.wake = now + JoinTimeout
             /\ main.pc = "join" =>
                    main'.pc = "close_entry" /\ (dpc = "done" \/ now >= main.wake)
             /\ main.pc \in {"close_entry", "close_exit", "buzzer_off"} =>
                    /\ sent' = Append(sent, StopCommand(main.pc))
                    /\ main'.pc = (CASE main.pc = "close_entry" -> "close_exit"
                                     [] main.pc = "close_exit" -> "buzzer_off"
                                     [] main.pc = "buzzer_off" -> "release")
             /\ main.pc = "release" =>
                    main'.pc = "join_release" /\ main'.wake = now + JoinTimeout
             /\ main.pc = "join_release" =>
                    /\ main'.pc = "disconnect" /\ ~camera_open'
                    /\ (dpc = "done" \/ now >= main.wake)
             /\ main.pc = "disconnect" => main'.pc = "stopped" /\ ~is_connected'
         ]_vars

\* C19 witness: stop() has run to its end while the detection thread is still
\* inside the entry handler (asleep with the buzzer on): the three commands
\* were sent after BUZZER_ON, the camera is released, the channel disconnected.
C19_Witness ==
    /\ main.pc = "stopped"
    /\ h[Detector].pc = "buzzer_sleep"
    /\ sent = <<"BUZZER_ON", "CLOSE_ENTRY_GATE", "CLOSE_EXIT_GATE", "BUZZER_OFF">>
    /\ ~camera_open
    /\ ~is_connected
    /\ ~processing

\* The constructor has run to its end.
Constructed == camera_handler.pc = "done"

\* The value the handler should hold for a key: the file's value where the
\* file is a JSON object holding a valid value for the key, else the default.
Expected(k) ==
    IF /\ camera_handler.use_config
       /\ config_file.kind = "object"
       /\ config_file.obj[k] # Absent
       /\ ValidValue(k, config_file.obj[k])
    THEN config_file.obj[k]
    ELSE HandlerDefaults[k]

\* C20: configuration loading never fails startup.  Whatever config.json is
\* (missing, not JSON, a JSON object that lacks keys or holds invalid values),
\* the construction of the camera handler does not raise, and the constructed
\* handler holds the file's value for every key the file holds validly and
\* the hard-coded default for every other key.
C20_ConfigNeverFailsStartup ==
    /\ camera_handler.pc # "raised"
    /\ Constructed => \A k \in ConfigKeys : camera_handler.fields[k] = Expected(k)

\* The part of C20 that the code keeps: with the file missing, unreadable or
\* not JSON, or with use_config off, the handler is built with the defaults.
C20_DefaultsWithoutUsableFile ==
    (Constructed /\ (~camera_handler.use_config
                       \/ config_file.kind \in {"missing", "unreadable", "not_json"}))
        => camera_handler.fields = HandlerDefaults

\* A JSON object without entry_zone has made the constructor raise.
C20_RaisedOnMissingZone ==
    /\ camera_handler.pc = "raised"
    /\ config_file.kind = "object"
    /\ config_file.obj["entry_zone"] = Absent

\* C21: atomic persistence.  A write of the active-vehicle store or of the
\* history store is all-or-nothing: whenever a step changes a store file, the
\* file afterwards holds the complete new content (it can be read back as
\* JSON); a write that fails leaves the previous content in place.
C21_AtomicPersistence ==
    [][ /\ vehicles_file' # vehicles_file => vehicles_file'.readable
        /\ history_file' # history_file => history_file'.readable
      ]_vars

\* The record add_history_record is called with in thread t.
HistoryEntry(t) ==
    [number_plate |-> h[t].number_plate,
     entry_time |-> IsoFormat(h[t].vehicle_entry[1].entry_time),
     exit_time |-> IsoFormat(h[t].exit_time), fee |-> h[t].fee,
     slot |-> h[t].vehicle_entry[1].slot]

\* C22: repository failure reporting.  At every call the handlers make,
\* add_vehicle_entry, remove_vehicle_entry and add_history_record return True
\* only if the change is in the store after the call (the record added is
\* held, the record removed is gone, the history record is the last one);
\* after a write that failed they return False.
C22_RepositoryReporting ==
    \A t \in Threads : \A outcome \in WriteOutcomes :
        /\ At(t, "entry", "add") =>
             LET r == AddVehicleEntry(vehicles_file, h[t].number_plate, now, h[t].slot, outcome)
             IN  r.result => HasPlate(ReadJson(r.file), h[t].number_plate)
        /\ At(t, "exit", "remove") =>
             LET r == RemoveVehicleEntry(vehicles_file, h[t].number_plate, outcome)
             IN  r.result => ~HasPlate(ReadJson(r.file), h[t].number_plate)
        /\ At(t, "exit", "history") =>
             LET r == AddHistoryRecord(history_file, h[t].number_plate,
                                       h[t].vehicle_entry[1].entry_time, h[t].exit_time,
                                       h[t].fee, h[t].vehicle_entry[1].slot, outcome)
                 history == ReadJson(r.file)
             IN  r.result => history # <<>> /\ history[Len(history)] = HistoryEntry(t)

\* C23: unique by plate while active.  In every reachable state the
\* active-vehicle store holds at most one record per number plate.
C23_UniqueByPlate ==
    \A i, j \in 1..Len(ActiveRecords) :
        i # j => ActiveRecords[i].number_plate # ActiveRecords[j].number_plate

\* C23 witness: two entry crossings have been admitted and the store holds
\* two records (of different plates).
C23_Witness ==
    /\ Len(ActiveRecords) = 2
    /\ crossings = 2
    /\ Count("OPEN_ENTRY_GATE") = 2

\* C24: the history store is append-only.  No step takes a history record
\* away or changes it, and a step adds at most one record, at the end; this
\* holds also for steps that find the history file unreadable.
C24_HistoryAppendOnly ==
    [][ LET old == ReadJson(history_file)
            new == ReadJson(history_file')
        IN  /\ Len(new) >= Len(old)
            /\ SubSeq(new, 1, Len(old)) = old
            /\ Len(new) <= Len(old) + 1
      ]_vars

\* With every store write succeeding the history store is append-only: the
\* record of the earlier stay stays first and the new record follows it.
C24_AppendOnlyWhenWritesSucceed ==
    [][ faults' = faults =>
          LET old == ReadJson(history_file)
              new == ReadJson(history_file')
          IN  /\ Len(new) >= Len(old)
              /\ SubSeq(new, 1, Len(old)) = old
              /\ Len(new) <= Len(old) + 1
      ]_vars

\* The history store holds a record of the stay the active record v stands for.
MovedToHistory(v, history) ==
    \E i \in 1..Len(history) :
        /\ history[i].number_plate = v.number_plate
        /\ history[i].entry_time = v.entry_time
        /\ history[i].slot = v.slot

\* C25: an active record is destroyed only by being moved to history.
\* Whenever a step of the exit handler takes a record out of the active
\* store, the history store holds a record with the same plate, entry time
\* and slot.
C25_RemovedOnlyWithHistory ==
    [][ \A t \in Threads :
          (h[t].zone = "exit" /\ Steps(t)) =>
              \A i \in 1..Len(ActiveRecords) :
                  ~HasPlate(ReadJson(vehicles_file'), ActiveRecords[i].number_plate) =>
                      MovedToHistory(ActiveRecords[i], ReadJson(history_file'))
      ]_vars

\* Both extraction attempts of the handler in thread t have failed.
BothFailed(t) == h[t].attempts = 2 /\ h[t].number_plate = NoPlate

\* C26: plate extraction retry.  A handler makes at most two extraction
\* attempts: the first on the zone image it was called with, the second only
\* after the first returned no plate, on a fresh crop of the full frame; no
\* other step extracts.  When both have failed the handler only takes the
\* abort path: no record change, no command, no timer, the zone's flag
\* cleared, return.
C26_ExtractionRetry ==
    /\ [](\A t \in Threads : h[t].attempts <= 2)
    /\ [][ \A t \in Threads :
             (Steps(t) /\ h[t].pc # "idle" /\ h'[t].pc # "idle") =>
                 /\ h[t].pc = "extract" =>
                        /\ h[t].attempts = 0
                        /\ h'[t].attempts = 1 /\ h'[t].image = "zone_image"
                        /\ h'[t].pc = (IF h'[t].number_plate = NoPlate THEN "retry" ELSE "lookup")
                 /\ h[t].pc = "retry" =>
                        /\ h[t].attempts = 1 /\ h[t].number_plate = NoPlate
                        /\ h'[t].attempts = 2 /\ h'[t].image = "frame_crop"
                        /\ h'[t].pc = (IF h'[t].number_plate = NoPlate THEN "clear_acquire"
                                       ELSE "lookup")
                        /\ NoEffect /\ UNCHANGED gate_processing
                 /\ h[t].pc \notin {"extract", "retry"} =>
                        h'[t].attempts = h[t].attempts /\ h'[t].image = h[t].image
                 /\ BothFailed(t) =>
                        /\ h[t].pc \in {"clear_acquire", "clear"}
                        /\ AbortStep(t)
         ]_vars

\* C26 witness: an exit handler has returned after two failed attempts while
\* the store holds an active record: nothing was sent, no timer runs and the
\* exit flag is down again.
C26_Witness ==
    \E t \in Threads :
        /\ At(t, "exit", "returned")
        /\ BothFailed(t)
        /\ h[t].image = "frame_crop"
        /\ ~gate_processing["exit"]
        /\ Len(ActiveRecords) = 1
        /\ Count("OPEN_EXIT_GATE") = 0

\* The slots of 1..total_slots that no active record occupies.
FreeSlots ==
    { n \in 1..total_slots : \A i \in 1..Len(ActiveRecords) : ActiveRecords[i].slot # n }

LowestFree == CHOOSE n \in FreeSlots : \A m \in FreeSlots : n <= m

\* The active record of the plate as the next state holds it.
AddedRecord(plate) ==
    LET vehicles == ReadJson(vehicles_file')
    IN  { vehicles[i] : i \in { k \in 1..Len(vehicles) : vehicles[k].number_plate = plate } }

\* C27: slot selection.  The entry handler's slot step takes the lowest slot
\* of 1..total_slots that no active record occupies, and the record a
\* successful entry adds carries that slot; with no slot unoccupied the
\* handler changes no record, sends no command, starts no timer and takes
\* the abort path, which clears the entry flag.
C27_SlotSelection ==
    [][ \A t \in Threads :
          (h[t].zone = "entry" /\ Steps(t)) =>
              /\ h[t].pc = "slots" =>
                     /\ NoEffect /\ UNCHANGED gate_processing
                     /\ IF FreeSlots = {}
                        THEN h'[t].pc = "clear_acquire"
                        ELSE h'[t].pc = "add" /\ h'[t].slot = LowestFree
              /\ h[t].pc = "add" =>
                     /\ h[t].slot = LowestFree
                     /\ \A v \in AddedRecord(h[t].number_plate) : v.slot = LowestFree
              /\ AbortStep(t)
      ]_vars

\* C27 witness: with slot 1 held by another vehicle and two slots in all, the
\* entry has been admitted and its record carries slot 2.
C27_Witness ==
    /\ total_slots = 2
    /\ Len(ActiveRecords) = 2
    /\ ActiveRecords[1] = OtherVehicle(1)
    /\ ActiveRecords[2].number_plate = "ABC123"
    /\ ActiveRecords[2].slot = 2
    /\ sent = <<"OPEN_ENTRY_GATE">>

\* The other case of C27: the only slot is held by another vehicle, and the
\* handler has returned with the store as it was, nothing sent, no timer and
\* the entry flag cleared.
C27_NoSlotWitness ==
    /\ total_slots = 1
    /\ ActiveRecords = <<OtherVehicle(1)>>
    /\ h[Detector].pc = "returned"
    /\ h[Detector].number_plate = "ABC123"
    /\ sent = <<>>
    /\ timers = <<>>
    /\ ~gate_processing["entry"]

\* The step's store write, if it made one, succeeded.
WritesSucceed == faults' = faults

\* C28: successful exit ordering.  For a plate with an active record the exit
\* handler, in this order: computes the fee; appends the history record, which
\* carries the record's entry time and slot and that fee, while the active
\* record is still there and nothing has been sent; removes the active
\* record; sends OPEN_EXIT_GATE; schedules the close.  With the store writes
\* succeeding, OPEN_EXIT_GATE goes out only with the active record removed and
\* the history record in place.
C28_ExitOrdering ==
    /\ [](\A t \in Threads :
            (At(t, "exit", "open") /\ StoreHealthy) =>
                /\ ~IsActive(h[t].number_plate)
                /\ HistoryRecords # <<>>
                /\ HistoryRecords[Len(HistoryRecords)] = HistoryEntry(t))
    /\ [][ \A t \in Threads :
             (h[t].zone = "exit" /\ Steps(t)) =>
                 /\ h[t].pc = "fee" =>
                        /\ h'[t].pc = "history"
                        /\ h'[t].fee = CalculateFee(h[t].vehicle_entry[1].entry_time, now)
                        /\ h'[t].exit_time = now
                        /\ NoEffect
                 /\ h[t].pc = "history" =>
                        /\ h'[t].pc = "remove"
                        /\ WritesSucceed =>
                               ReadJson(history_file') = Append(HistoryRecords, HistoryEntry(t))
                        /\ UNCHANGED <<vehicles_file, sent, timers>>
                 /\ h[t].pc = "remove" =>
                        /\ h'[t].pc = "open"
                        /\ WritesSucceed => ~HasPlate(ReadJson(vehicles_file'), h[t].number_plate)
                        /\ UNCHANGED <<history_file, sent, timers>>
                 /\ h[t].pc = "open" =>
                        /\ h'[t].pc = "timer"
                        /\ sent' = Append(sent, "OPEN_EXIT_GATE")
                        /\ UNCHANGED <<vehicles_file, history_file, timers>>
                 /\ h[t].pc = "timer" =>
                        /\ h'[t].pc = "returned"
                        /\ timers' = Append(timers, [zone |-> "exit", due |-> now + GateTimeout,
                                                     pc |-> "waiting"])
                        /\ UNCHANGED <<vehicles_file, history_file, sent>>
                 /\ h[t].pc \notin {"open"} => sent' = sent
         ]_vars

\* C28 witness: a tracked vehicle has left: its exit handler has returned, the
\* history store ends with its record, the active store is empty, the last
\* command is OPEN_EXIT_GATE and the exit close is scheduled.
C28_Witness ==
    \E t \in Threads :
        /\ At(t, "exit", "returned")
        /\ StoreHealthy
        /\ h[t].vehicle_entry # <<>>
        /\ HistoryRecords = <<HistoryEntry(t)>>
        /\ ActiveRecords = <<>>
        /\ sent # <<>> /\ sent[Len(sent)] = "OPEN_EXIT_GATE"
        /\ \E i \in 1..Len(timers) : timers[i].zone = "exit" /\ timers[i].pc = "waiting"

\* A step of the crossing check that declares a crossing in zone z.
Declares(z) == dpc = "scan" /\ dzone = z /\ crossings' = crossings + 1

\* C29: the cooldown clock starts at declaration only.  A zone's last-crossing
\* time changes only in a step that declares a crossing in that zone, and
\* then to the time the check read at its start; a check that ends without a
\* declaration (cooldown running, no contour, contours too small or off the
\* line) leaves it alone.  The declaring step records the time with the
\* callback not yet begun, and no step of the callback, raising included,
\* takes it back.
C29_CooldownStartsAtDeclaration ==
    /\ [](dpc = "callback" => last_crossing_time[dzone] >= StartTime)
    /\ [][ \A z \in Zone :
             /\ last_crossing_time'[z] # last_crossing_time[z] => Declares(z)
             /\ Declares(z) =>
                    /\ last_crossing_time'[z] = current_time
                    /\ h[Detector].pc = "idle"
                    /\ h'[Detector].pc = "acquire" /\ h'[Detector].zone = z
                    /\ dpc' = "callback"
             /\ (dzone = z /\ dpc \in {"check", "scan"} /\ dpc' # dpc /\ ~Declares(z)) =>
                    /\ last_crossing_time' = last_crossing_time
                    /\ UNCHANGED <<crossings, h>>
         ]_vars
    /\ [][ h'[Detector].pc = "raised" =>
             /\ last_crossing_time' = last_crossing_time
             /\ last_crossing_time[dzone] >= StartTime
         ]_vars

\* C29 witness: the callback of a declared exit crossing has raised, and the
\* exit zone's last-crossing time is the time of the declaration while the
\* entry zone's is still the initial one.
C29_Witness ==
    /\ dpc = "callback"
    /\ dzone = "exit"
    /\ h[Detector].pc = "raised"
    /\ last_crossing_time["exit"] = StartTime
    /\ last_crossing_time["entry"] = 0
    /\ gate_processing["exit"]

\* The contour c counts for a crossing of the trigger row: it is large enough
\* and its extent reaches from the row or above to the row or below.
Qualifies(c, row) == c.area >= motion_threshold /\ c.y <= row /\ row <= c.y + c.h

\* The positions in the contour list of the contours that count.
Qualifying == { i \in 1..Len(contours) : Qualifies(contours[i], virtual_line_y[dzone]) }

\* C30: one check, one declaration.  When a crossing check has passed the
\* cooldown test and its contour list holds at least one contour that counts,
\* the check declares one crossing, whatever the number of contours that
\* count, and starts the zone's callback once: the loop stops at the first
\* such contour in the order of the list, and after the callback the detector
\* goes on to the next check or frame, not back to the list.
C30_FirstContourDeclaresOnce ==
    /\ [](dpc = "scan" =>
            LET i == FirstCrossing(contours, virtual_line_y[dzone] - ZoneY1(dzone))
            IN  IF Qualifying = {} THEN i = 0
                ELSE i \in Qualifying /\ \A j \in Qualifying : i <= j)
    /\ [][ (dpc = "scan" /\ dpc' # dpc /\ Qualifying # {}) =>
             /\ crossings' = crossings + 1
             /\ dpc' = "callback"
             /\ h'[Detector] = [IdleFrame EXCEPT !.pc = "acquire", !.zone = dzone]
             /\ contours' = <<>>
         ]_vars
    /\ [][ (dpc = "callback" /\ dpc' # dpc) =>
             /\ dpc' = (IF dzone = "entry" THEN "check" ELSE "read")
             /\ h[Detector].pc = "returned"
             /\ UNCHANGED <<crossings, last_crossing_time>>
         ]_vars
    /\ [][ (dpc = "scan" /\ dpc' # dpc /\ Qualifying = {}) =>
             UNCHANGED <<crossings, h, last_crossing_time>>
         ]_vars
    /\ [][ crossings' # crossings => dpc = "scan" /\ Qualifying # {} ]_vars

\* C30 witness: a check past the cooldown test holds two contours that both
\* count; one crossing has been declared before.
C30_Witness ==
    /\ dpc = "scan"
    /\ Len(contours) = 2
    /\ Qualifying = {1, 2}
    /\ crossings = 1
    /\ ~InCooldown(current_time, last_crossing_time[dzone])

\* C31: an exception raised by a crossing callback is caught inside the
\* crossing check.  The step that follows a raising callback leaves the
\* detection loop running (processing stays true, the thread has not ended)
\* and goes on within the same iteration: after the entry zone's callback the
\* exit zone is checked, after the exit zone's the next frame is read.
C31_CallbackExceptionCaught ==
    /\ [](dpc # "done" /\ processing)
    /\ [][ (h[Detector].pc = "raised" /\ h'[Detector] # h[Detector]) =>
             /\ h'[Detector] = IdleFrame
             /\ processing'
             /\ IF dzone = "entry"
                THEN dpc' = "check" /\ dzone' = "exit"
                ELSE dpc' = "read" /\ dzone' = "entry"
             /\ UNCHANGED <<last_crossing_time, crossings, gate_processing, sent, timers>>
         ]_vars

\* C31 witness: the entry callback raised after it had set the entry flag (the
\* flag is left set, no timer runs), and the detector stands in the exit
\* zone's check of the same iteration.
C31_Witness ==
    /\ dpc = "check"
    /\ dzone = "exit"
    /\ h[Detector] = IdleFrame
    /\ gate_processing["entry"]
    /\ timers = <<>>
    /\ crossings = 1
    /\ last_crossing_time["entry"] = now
    /\ processing

\* The positions inside a `with self.processing_lock` block: of a handler, and
\* of a close callback.
LockedPcs == {"test", "set", "clear"}
HandlersInLock == { t \in Threads : h[t].pc \in LockedPcs }
TimersInLock == { i \in 1..Len(timers) : timers[i].pc \in {"test", "clear"} }

\* C32: lock discipline.  The lock is held exactly while one handler or close
\* callback stands inside a with block, and by one of them at a time; the
\* flags are read (the test steps) and written only from inside a with block;
\* a handler that extracts a plate, waits with the buzzer on, waits for its
\* retry or does any other work outside the block does not hold the lock.
C32_LockDiscipline ==
    /\ [](processing_lock <=> (HandlersInLock # {} \/ TimersInLock # {}))
    /\ [](Cardinality(HandlersInLock) + Cardinality(TimersInLock) <= 1)
    /\ [](\A t \in Threads :
            (h[t].pc \in {"extract", "retry", "buzzer_on", "buzzer_sleep"} /\ TimersInLock = {})
                => ~processing_lock)
    /\ [][ gate_processing' # gate_processing =>
             /\ processing_lock
             /\ ~processing_lock'
             /\ \/ \E t \in HandlersInLock : h[t].pc \in {"set", "clear"} /\ Steps(t)
                \/ \E i \in TimersInLock : timers[i].pc = "clear" /\ TimerSteps(i)
         ]_vars

\* C32 witness: the entry gate's close callback stands inside its with block,
\* about to read the entry flag, while the exit handler is extracting a
\* plate.
C32_Witness ==
    /\ h[Detector].pc = "extract"
    /\ h[Detector].zone = "exit"
    /\ \E i \in 1..Len(timers) : timers[i].pc = "test" /\ timers[i].zone = "entry"
    /\ processing_lock
    /\ gate_processing["entry"] /\ gate_processing["exit"]

\* C33: whenever the detection loop runs a crossing check, the trigger rows
\* of both zones are resolved pixel rows, also after a failed first read of
\* the camera, and the loop goes on.
C33_TriggerRowsResolved ==
    /\ dpc # "done"
    /\ dpc \in {"check", "scan"} =>
         \A z \in Zone : virtual_line_y[z] = VirtualLineRow(ActualHeight)

\* C34 (as stated): for a stay of zero duration (exit time equal to entry
\* time) calculate_fee returns 0 and logs the condition as an error.
C34_ZeroDurationIsError ==
    [][ \A t \in Threads :
          (h[t].pc = "fee" /\ Steps(t) /\ Stay(t) = 0) =>
              h'[t].fee = 0 /\ h'[t].fee_error
      ]_vars

\* C34 (amended): for a stay of zero duration calculate_fee returns 0, not
\* the rate of one hour, and logs no error: the fee is the rounded-up number
\* of hours, which is 0, and only an exit before the entry is logged as an
\* error.
C34_ZeroDurationFee ==
    [][ \A t \in Threads :
          (h[t].pc = "fee" /\ Steps(t) /\ Stay(t) = 0) =>
              /\ h'[t].fee = 0
              /\ h'[t].fee # hourly_rate
              /\ ~h'[t].fee_error
              /\ h'[t].fee = RoundUpHours(0) * hourly_rate
      ]_vars

\* C34 witness: the exit handler has computed the fee of a stay whose exit
\* time is its entry time: 0, with no error logged.
C34_Witness ==
    /\ h[Detector].pc = "history"
    /\ h[Detector].exit_time = h[Detector].vehicle_entry[1].entry_time
    /\ h[Detector].fee = 0
    /\ ~h[Detector].fee_error

\* The detection thread is inside a crossing handler.
HandlerRunning == h[Detector].pc \notin {"idle", "returned"}

\* C35: the handlers run synchronously on the single detection thread.  A
\* handler runs only while the loop stands at its callback call, for the zone
\* whose check made the call; so handlers of the two zones never run
\* together.  While a handler runs, its buzzer wait and retry delay included,
\* the loop reads no frame and runs no check, and no crossing is declared for
\* either zone; a crossing is declared only with no handler running.
C35_HandlersSynchronous ==
    /\ [](Threads = {Detector})
    /\ [](h[Detector].pc # "idle" => dpc = "callback" /\ h[Detector].zone = dzone)
    /\ [][ HandlerRunning =>
             UNCHANGED <<dpc, dzone, contours, current_time, crossings, last_crossing_time>>
         ]_vars
    /\ [][ crossings' # crossings => h[Detector] = IdleFrame /\ dpc = "scan" ]_vars

\* C35 witness: the entry handler is in its buzzer wait and the three seconds
\* have passed since the crossing; the loop still stands at the callback call
\* and no second crossing has been declared.
C35_Witness ==
    /\ h[Detector].pc = "buzzer_sleep"
    /\ dpc = "callback"
    /\ now >= last_crossing_time["entry"] + BuzzerSeconds
    /\ crossings = 1
    /\ last_crossing_time["exit"] = 0

\* The close timers of zone z that have been started and whose callback has
\* not returned.
TimersOf(z) == { i \in 1..Len(timers) : timers[i].zone = z }

\* C36: for each zone at most one close timer is pending, and while one is
\* pending the zone's flag is true: a timer is started only by a handler of
\* the zone with the flag set and no other timer of the zone pending, and
\* with a timer pending the flag is cleared only by that timer's own close
\* callback, in the step that ends it.
C36_OnePendingTimer ==
    /\ [](\A z \in Zone : Cardinality(TimersOf(z)) <= 1)
    /\ [](\A z \in Zone : TimersOf(z) # {} => gate_processing[z])
    /\ [][ \A z \in Zone :
             (TimersOf(z) # {} /\ ~gate_processing'[z]) =>
                 \E i \in TimersOf(z) :
                     /\ timers[i].pc = "clear"
                     /\ timers' = Finished(i)
         ]_vars
    /\ [][ Len(timers') > Len(timers) =>
             \E t \in Threads :
                 /\ h[t].pc = "timer" /\ Steps(t)
                 /\ TimersOf(h[t].zone) = {}
                 /\ gate_processing'[h[t].zone]
         ]_vars

\* C36 witness: the entry gate's timer is still pending when a second entry
\* crossing has been declared and turned away: one timer, the flag true.
C36_Witness ==
    /\ Len(timers) = 1
    /\ timers[1].zone = "entry" /\ timers[1].pc = "waiting"
    /\ gate_processing["entry"]
    /\ crossings = 2
    /\ last_crossing_time["exit"] = 0
    /\ last_crossing_time["entry"] > timers[1].due - GateTimeout
    /\ h[Detector] = IdleFrame

\* C37: slot ledger.  In every state reached from the empty store by entry
\* and exit crossings, the active records are at most total_slots, each holds
\* a slot in 1..total_slots, and no two hold the same slot.
C37_SlotLedger ==
    /\ Len(ActiveRecords) <= total_slots
    /\ \A i \in 1..Len(ActiveRecords) : ActiveRecords[i].slot \in 1..total_slots
    /\ \A i, j \in 1..Len(ActiveRecords) :
         ActiveRecords[i].slot = ActiveRecords[j].slot => i = j

\* C37 witness: two entry crossings have filled a ledger of two slots: two
\* active records, of different plates, holding the slots 1 and 2.
C37_Witness ==
    /\ total_slots = 2
    /\ crossings = 2
    /\ Len(ActiveRecords) = 2
    /\ ActiveRecords[1].slot = 1 /\ ActiveRecords[2].slot = 2
    /\ ActiveRecords[1].number_plate # ActiveRecords[2].number_plate

\* The slots the active-vehicle store reports free.
AvailableNow == GetAvailableSlots(vehicles_file, total_slots)

\* C38: when the active-vehicle store cannot be read, get_available_slots
\* returns every slot 1..total_slots in order and is_parking_full returns
\* False, and an entry crossing goes the way it goes with an empty store: the
\* full check passes unless the occupancy flag is set, the plate is found not
\* to be parked, and slot 1 is assigned.  A store that can be read is reported
\* full only if every slot 1..total_slots is held by an active record.
C38_UnreadableStoreIsEmpty ==
    /\ [](~vehicles_file.readable =>
            /\ Len(AvailableNow) = total_slots
            /\ \A n \in 1..total_slots : AvailableNow[n] = n
            /\ ~IsParkingFull(vehicles_file, total_slots))
    /\ [](vehicles_file.readable /\ IsParkingFull(vehicles_file, total_slots) =>
            \A n \in 1..total_slots :
                \E i \in 1..Len(vehicles_file.data) : vehicles_file.data[i].slot = n)
    /\ [][ \A t \in Threads :
             (~vehicles_file.readable /\ h[t].zone = "entry" /\ Steps(t)) =>
                 /\ h[t].pc = "full_check" =>
                      h'[t].pc = IF slot_occupied THEN "buzzer_on" ELSE "extract"
                 /\ h[t].pc = "lookup" => h'[t].pc = "slots"
                 /\ h[t].pc = "slots" => h'[t].pc = "add" /\ h'[t].slot = 1
         ]_vars

\* C38 witness: the write of the first vehicle's record broke off and left a
\* store that cannot be read, the gate was opened for that vehicle all the
\* same; the handler of the second entry crossing has found the parking not
\* full and has taken slot 1.
C38_Witness ==
    /\ ~vehicles_file.readable
    /\ Count("OPEN_ENTRY_GATE") = 1
    /\ crossings = 2
    /\ At(Detector, "entry", "add")
    /\ h[Detector].slot = 1
    /\ ~slot_occupied

OtherZone(z) == IF z = "entry" THEN "exit" ELSE "entry"

\* The zone whose crossing a step of thread t works on: the zone of the
\* frame it leaves, or of the frame it creates when the crossing is declared.
ZoneOfStep(t) == IF h[t].pc = "idle" THEN h'[t].zone ELSE h[t].zone

\* The step leaves zone z's processing flag and last-crossing time alone.
ZoneUntouched(z) ==
    /\ gate_processing'[z] = gate_processing[z]
    /\ last_crossing_time'[z] = last_crossing_time[z]

\* The step is one of timer i's close callback: the timer ends, or moves on
\* with every other timer as it was.
TimerActs(i) ==
    \/ timers' = Finished(i)
    \/ /\ Len(timers') = Len(timers)
       /\ timers'[i] # timers[i]
       /\ \A j \in 1..Len(timers) : j # i => timers'[j] = timers[j]

\* C39: zone independence.  No step taken for a crossing of one zone (its
\* declaration, its handler, its close timer) changes the other zone's
\* processing flag or last-crossing time; and a handler whose own flag is
\* clear accepts its crossing (sets its flag) also when the other zone's flag
\* is set.
C39_ZoneIndependence ==
    /\ [][ \A t \in Threads : Steps(t) => ZoneUntouched(OtherZone(ZoneOfStep(t))) ]_vars
    /\ [][ \A i \in 1..Len(timers) :
             TimerActs(i) => ZoneUntouched(OtherZone(timers[i].zone)) ]_vars
    /\ [][ \A t \in Threads :
             (h[t].pc = "test" /\ Steps(t) /\ ~gate_processing[h[t].zone]) =>
                 h'[t].pc = "set"
         ]_vars
    /\ [][ \A t \in Threads :
             (h[t].pc = "set" /\ Steps(t)) =>
                 /\ gate_processing'[h[t].zone]
                 /\ ZoneUntouched(OtherZone(h[t].zone))
         ]_vars

\* C39 witness: the exit crossing has been accepted while the entry flag was
\* set (the entry gate's timer still pending): both flags are set, the exit
\* handler is at work, and the entry zone's last-crossing time is that of the
\* entry crossing, earlier than the exit's.
C39_Witness ==
    /\ gate_processing["entry"] /\ gate_processing["exit"]
    /\ At(Detector, "exit", "extract")
    /\ TimersOf("entry") # {}
    /\ last_crossing_time["entry"] = StartTime
    /\ last_crossing_time["exit"] > StartTime

\* stop() has sent its CLOSE_ENTRY_GATE and its CLOSE_EXIT_GATE.
StopHasClosed == main.pc \in {"buzzer_off", "release", "join_release", "disconnect", "stopped"}

\* C40: once stop() has sent its final CLOSE_ENTRY_GATE and CLOSE_EXIT_GATE,
\* no OPEN_ENTRY_GATE and no OPEN_EXIT_GATE is sent any more, also when a
\* crossing handler was running in the detection thread when stop() was
\* called and the join timed out.
C40_NoOpenAfterStop ==
    [][ StopHasClosed =>
          \A z \in Zone : Count(OpenCommand(z))' = Count(OpenCommand(z))
      ]_vars

====
